---------------------------- MODULE Spec2Model ----------------------------
(***************************************************************************)
(* A model of the hpc-multibench test bench (src/src/hpc_multibench):       *)
(* the matrix expansion, the record pass with its ledger, the ledger        *)
(* reconstruction and the rerun aggregation.                                *)
(*                                                                          *)
(* Python values are modelled as follows.                                   *)
(*   - a dict is a sequence of <<key, value>> pairs with pairwise distinct  *)
(*     keys, in insertion order;                                            *)
(*   - None is the record field value NoJob (for a job id) or an `error`    *)
(*     / `exists` flag beside the value;                                    *)
(*   - a raised exception is the `error` field of the result record.        *)
(***************************************************************************)
EXTENDS Integers, Sequences, FiniteSets, TLC

VARIABLES
    \* the bench
    run_configuration_models, \* names of the run configurations, in order
    matrix,          \* bench_model.matrix
    reruns,          \* bench_model.reruns
    analysis,        \* bench_model.analysis: [metrics, derived_metrics]
    \* TestBench.instantiations
    instantiations,  \* result of the last read of the property
    \* RunConfigurationModel.realise
    realised_runs,   \* the runs realised from the instantiations
    \* TestBench.wait_for_queue and the scheduler
    wait,            \* the call of wait_for_queue: its locals and result
    queue,           \* the job ids the scheduler holds in its queue
    \* the output directory and the scheduler
    output_directory_exists,
    ledger,          \* runs_metadata.csv: [exists, rows]
    next_job_id,     \* the job id the scheduler hands out next
    \* the last TestBench.record call
    args,            \* its arguments: [dry_run, no_clobber]
    record_error,    \* the exception it raised, or "none"
    submissions,     \* the calls of RunConfiguration.run it made, in order
    dry_run_outputs, \* the script texts it printed
    ledger_before,   \* the ledger when it was called
    recorded,        \* a record call has been made
    failures,        \* number of failed submissions so far
    output_files,    \* the job output files in the output directory
    \* the last TestBench.get_run_outputs call
    run_outputs,
    \* TestBench.aggregate_run_metrics
    run_metrics,     \* argument of the last call
    aggregated,      \* result of the last call
    \* TestBench.calculate_derived_metrics
    derived          \* result of the last call

benchVars == <<run_configuration_models, matrix, reruns, analysis>>

recordVars ==
    <<output_directory_exists, ledger, next_job_id, args, record_error,
      submissions, dry_run_outputs, ledger_before, recorded, failures,
      output_files>>

aggVars == <<run_metrics, aggregated, derived>>

expandVars == <<instantiations, realised_runs>>

waitVars == <<wait, queue>>

vars == <<benchVars, expandVars, waitVars, recordVars, run_outputs, aggVars>>

-----------------------------------------------------------------------------
(* Generic sequence and dict helpers *)

Range(s) == {s[i] : i \in 1..Len(s)}

\* Python dict item assignment d[k] = v: an existing key keeps its position
\* and takes the new value, a new key is appended.
DictSet(d, k, v) ==
    IF \E i \in 1..Len(d) : d[i][1] = k
    THEN [i \in 1..Len(d) |-> IF d[i][1] = k THEN <<k, v>> ELSE d[i]]
    ELSE Append(d, <<k, v>>)

DictKeys(d) == {d[i][1] : i \in 1..Len(d)}

DictGet(d, k) == d[CHOOSE i \in 1..Len(d) : d[i][1] = k][2]

\* All sequences over S of length 0..n
SeqsUpTo(S, n) == UNION {[1..k -> S] : k \in 0..n}

RECURSIVE Flatten(_)
Flatten(ss) == IF ss = <<>> THEN <<>> ELSE Head(ss) \o Flatten(Tail(ss))

-----------------------------------------------------------------------------
(* Values of the variables a specification does not use *)

DefaultReruns ==
    [number |-> 1, highest_discard |-> 0, lowest_discard |-> 0,
     unaggregatable_metrics |-> {}]

NotAggregated == [called |-> FALSE, error |-> "none", list |-> <<>>]

NotRealised == [called |-> FALSE, list |-> <<>>]

\* wait_for_queue has not been called
NotWaiting ==
    [pc |-> "idle", max_time_to_wait |-> 0, backoff |-> <<>>,
     time_waited |-> 0, backoff_index |-> 0, sleeps |-> <<>>,
     queued_jobs |-> {}, required_jobs |-> {}, result |-> "none"]

NotDerived ==
    [called |-> FALSE, error |-> "none", list |-> <<>>, contexts |-> <<>>]

\* A bench without analysis
NoAnalysis == [metrics |-> <<>>, derived_metrics |-> <<>>]

\* The job id None
NoJob == 0

NoLedger == [exists |-> FALSE, rows |-> <<>>]

NoArgs == [dry_run |-> FALSE, no_clobber |-> FALSE]

NoRunOutputs ==
    [called |-> FALSE, exists |-> FALSE, error |-> "none", groups |-> <<>>]

\* The bench before its first record call
NothingRecorded ==
    /\ output_directory_exists = FALSE
    /\ ledger = NoLedger
    /\ next_job_id = 1
    /\ args = NoArgs
    /\ record_error = "none"
    /\ submissions = <<>>
    /\ dry_run_outputs = <<>>
    /\ ledger_before = NoLedger
    /\ recorded = FALSE
    /\ failures = 0
    /\ output_files = <<>>

-----------------------------------------------------------------------------
(* Bounds of the matrix inputs *)

MaxAxes == 2
MaxValues == 2

\* An axis of bench_model.matrix: `key` is the sequence of the field names of
\* the dict key (one name for a str key), `linked` says that the key is a
\* tuple, `values` is the value list (a list of settings, each a sequence of
\* values, when the key is a tuple).
FieldValues == {"1", "2"}

LinkedSettings == {<<"1", "x">>, <<"2", "y">>, <<"1">>}

AxisInputs ==
    {[key |-> <<f>>, linked |-> FALSE, values |-> vs] :
        f \in {"args", "a"}, vs \in SeqsUpTo(FieldValues, MaxValues)}
    \cup
    {[key |-> <<"a", "b">>, linked |-> TRUE, values |-> vs] :
        vs \in SeqsUpTo(LinkedSettings, MaxValues)}

\* The matrix is a dict: its keys are pairwise distinct.
MatrixInputs ==
    {m \in SeqsUpTo(AxisInputs, MaxAxes) :
        \A i, j \in 1..Len(m) :
            i # j => <<m[i].linked, m[i].key>> # <<m[j].linked, m[j].key>>}

-----------------------------------------------------------------------------
(* TestBench.instantiations *)

\* list(zip(key, setting, strict=True)) when the lengths agree
Zip(key, setting) == [i \in 1..Len(key) |-> <<key[i], setting[i]>>]

\* Mutant of ShapedAxis: the fields of a tuple key are swept independently
\* of each other (every pairing of a first and a second value).
ShapedAxisUnlinked(axis) ==
    IF ~axis.linked
    THEN [i \in 1..Len(axis.values) |-> << <<axis.key[1], axis.values[i]>> >>]
    ELSE LET n == Len(axis.values)
         IN  [p \in 1..(n * n) |->
                << <<axis.key[1], axis.values[((p - 1) \div n) + 1][1]>>,
                   <<axis.key[2], axis.values[((p - 1) % n) + 1][2]>> >>]

\* The fragments of one axis
ShapedAxis(axis) ==
    IF ~axis.linked
    THEN [i \in 1..Len(axis.values) |-> << <<axis.key[1], axis.values[i]>> >>]
    ELSE [i \in 1..Len(axis.values) |-> Zip(axis.key, axis.values[i])]

\* zip(..., strict=True) raises ValueError on a setting of another length
ZipRaises(m) ==
    \E a \in 1..Len(m) :
        m[a].linked /\ \E i \in 1..Len(m[a].values) :
            Len(m[a].values[i]) # Len(m[a].key)

Shaped(m) == [a \in 1..Len(m) |-> ShapedAxis(m[a])]

\* itertools.product(*pools): result = [[]]; for each pool,
\* result = [x + [y] for x in result for y in pool]
RECURSIVE ProductAcc(_, _)
ProductAcc(result, pools) ==
    IF pools = <<>> THEN result
    ELSE ProductAcc(
            Flatten([i \in 1..Len(result) |->
                        [j \in 1..Len(Head(pools)) |->
                            Append(result[i], Head(pools)[j])]]),
            Tail(pools))

\* Mutant of Product: only the first axis is swept
ProductFirstAxisOnly(pools) ==
    IF pools = <<>> THEN << <<>> >>
    ELSE [j \in 1..Len(Head(pools)) |-> <<Head(pools)[j]>>]

\* Mutant of Product: the first pool varies fastest
RECURSIVE ProductFirstFastestAcc(_, _)
ProductFirstFastestAcc(result, pools) ==
    IF pools = <<>> THEN result
    ELSE ProductFirstFastestAcc(
            Flatten([j \in 1..Len(Head(pools)) |->
                        [i \in 1..Len(result) |->
                            Append(result[i], Head(pools)[j])]]),
            Tail(pools))

ProductFirstFastest(pools) == ProductFirstFastestAcc(<< <<>> >>, pools)

Product(pools) == ProductAcc(<< <<>> >>, pools)

\* {item[0]: item[1] for items in combination for item in items}
RECURSIVE DictFromPairs(_, _)
DictFromPairs(d, pairs) ==
    IF pairs = <<>> THEN d
    ELSE DictFromPairs(DictSet(d, Head(pairs)[1], Head(pairs)[2]), Tail(pairs))

MergeCombination(combination) == DictFromPairs(<<>>, Flatten(combination))

Instantiations(m) ==
    IF ZipRaises(m)
    THEN [error |-> "ValueError", list |-> <<>>]
    ELSE LET combinations == Product(Shaped(m))
         IN  [error |-> "none",
              list  |-> [c \in 1..Len(combinations) |->
                            MergeCombination(combinations[c])]]

NotCalled == [called |-> FALSE, error |-> "none", list |-> <<>>]

\* A caller reads the property TestBench.instantiations
Expand ==
    /\ ~instantiations.called
    /\ instantiations' =
          [called |-> TRUE,
           error  |-> Instantiations(matrix).error,
           list   |-> Instantiations(matrix).list]
    /\ UNCHANGED <<benchVars, realised_runs, waitVars, recordVars, run_outputs,
                   aggVars>>

\* The template of run configuration "ref": the fields of its
\* RunConfigurationModel; `args` "None" is None
Template ==
    [sbatch_config |-> "sbatch_config", module_loads |-> "module_loads",
     environment_variables |-> "environment_variables",
     directory |-> "directory", build_commands |-> "build_commands",
     run_command |-> "run_command", args |-> "None"]

\* The loop over variables.items(), lines 69-71 of yaml_model.py
RECURSIVE ApplyVariables(_, _)
ApplyVariables(run, variables) ==
    IF variables = <<>> THEN run
    ELSE ApplyVariables(
            IF Head(variables)[1] = "args"
            THEN [run EXCEPT !.args = Head(variables)[2]]
            ELSE run,
            Tail(variables))

\* RunConfigurationModel.realise: the run configuration built from the
\* model, with the variables applied; `error` is the exception raised
realise(model, run_configuration_name, variables) ==
    [error |-> "none",
     run |-> ApplyVariables(
                [name |-> run_configuration_name,
                 run_command |-> model.run_command,
                 sbatch_config |-> model.sbatch_config,
                 module_loads |-> model.module_loads,
                 environment_variables |-> model.environment_variables,
                 directory |-> model.directory,
                 build_commands |-> model.build_commands,
                 args |-> model.args],
                variables)]

\* Every instantiation of the matrix is realised for run configuration "ref"
RealiseRuns ==
    /\ instantiations.called
    /\ instantiations.error = "none"
    /\ ~realised_runs.called
    /\ realised_runs' =
          [called |-> TRUE,
           list |-> [i \in 1..Len(instantiations.list) |->
                       realise(Template, "ref", instantiations.list[i])]]
    /\ UNCHANGED <<benchVars, instantiations, waitVars, recordVars,
                   run_outputs, aggVars>>

InitExpand ==
    /\ run_configuration_models = <<"ref">>
    /\ matrix \in MatrixInputs
    /\ reruns = DefaultReruns
    /\ analysis = NoAnalysis
    /\ instantiations = NotCalled
    /\ realised_runs = NotRealised
    /\ wait = NotWaiting
    /\ queue = {}
    /\ NothingRecorded
    /\ run_outputs = NoRunOutputs
    /\ run_metrics = <<>>
    /\ aggregated = NotAggregated
    /\ derived = NotDerived

NextExpand == Expand \/ RealiseRuns

SpecExpand == InitExpand /\ [][NextExpand]_vars

-----------------------------------------------------------------------------
(* Claims about the Instantiation Expander, checked under SpecExpand *)

\* Every setting of every linked axis has as many values as the key has names
WellFormedMatrix(m) ==
    \A a \in 1..Len(m) :
        m[a].linked => \A i \in 1..Len(m[a].values) :
                            Len(m[a].values[i]) = Len(m[a].key)

RECURSIVE ProductOfLengths(_)
ProductOfLengths(m) ==
    IF m = <<>> THEN 1 ELSE Len(Head(m).values) * ProductOfLengths(Tail(m))

\* C6: for every (well-formed) matrix the expander returns exactly
\* prod len(axis values) instantiations: the single empty instantiation for
\* the empty matrix and none when some axis has no value; the result is a
\* function of the matrix alone.
C6_InstantiationCount ==
    (instantiations.called /\ WellFormedMatrix(matrix)) =>
        /\ instantiations.error = "none"
        /\ Len(instantiations.list) = ProductOfLengths(matrix)
        /\ (matrix = <<>> => instantiations.list = << <<>> >>)
        /\ ((\E a \in 1..Len(matrix) : matrix[a].values = <<>>)
                => instantiations.list = <<>>)

C6_Witness ==
    /\ instantiations.called
    /\ WellFormedMatrix(matrix)
    /\ Len(matrix) = 2
    /\ Len(instantiations.list) = 4

\* The names of axis a of m are named by no other axis of m
FieldsOwnedBy(m, a) ==
    \A b \in 1..Len(m) :
        b # a => Range(m[b].key) \cap Range(m[a].key) = {}

\* C7: a linked axis supplies all its fields in lock-step. In every
\* instantiation, the fields of a linked axis (named by no other axis) carry
\* the values of one single setting of that axis; a matrix made of one linked
\* axis yields exactly one instantiation per setting, in order.
C7_LinkedAxisLockStep ==
    (instantiations.called /\ WellFormedMatrix(matrix)) =>
        \A a \in 1..Len(matrix) :
            (matrix[a].linked /\ FieldsOwnedBy(matrix, a)) =>
                /\ \A k \in 1..Len(instantiations.list) :
                      \E j \in 1..Len(matrix[a].values) :
                          \A f \in 1..Len(matrix[a].key) :
                              /\ matrix[a].key[f] \in
                                    DictKeys(instantiations.list[k])
                              /\ DictGet(instantiations.list[k],
                                         matrix[a].key[f])
                                   = matrix[a].values[j][f]
                /\ (Len(matrix) = 1 =>
                      instantiations.list =
                          [j \in 1..Len(matrix[a].values) |->
                              [f \in 1..Len(matrix[a].key) |->
                                  <<matrix[a].key[f], matrix[a].values[j][f]>>]])

C7_Witness ==
    /\ instantiations.called
    /\ Len(matrix) = 2
    /\ matrix[1].linked
    /\ matrix[1].values = << <<"1", "x">>, <<"2", "y">> >>
    /\ matrix[2].key = <<"args">>
    /\ Len(matrix[2].values) = 2
    /\ Len(instantiations.list) = 4

\* The number of combinations of the axes after axis a
RECURSIVE Stride(_, _)
Stride(m, a) ==
    IF a >= Len(m) THEN 1 ELSE Len(m[a + 1].values) * Stride(m, a + 1)

\* The index, in axis a's value list, of the value used at list position k
\* when the last axis varies fastest
AxisIndex(m, k, a) == (((k - 1) \div Stride(m, a)) % Len(m[a].values)) + 1

\* p comes before q in the lexicographic order of the axis indices
LexBefore(m, p, q) ==
    \E a \in 1..Len(m) :
        /\ AxisIndex(m, p, a) < AxisIndex(m, q, a)
        /\ \A b \in 1..(a - 1) : AxisIndex(m, p, b) = AxisIndex(m, q, b)

\* C8: the list is the Cartesian product in axis declaration order with the
\* value order of each axis kept: the instantiation at position k is built
\* from the values at AxisIndex(k, a), and position p precedes position q
\* exactly when p's index is the smaller at the first axis where they differ.
C8_LexicographicOrder ==
    (instantiations.called /\ WellFormedMatrix(matrix)) =>
        /\ \A k \in 1..Len(instantiations.list) :
              instantiations.list[k] =
                  MergeCombination(
                      [a \in 1..Len(matrix) |->
                          ShapedAxis(matrix[a])[AxisIndex(matrix, k, a)]])
        /\ \A p, q \in 1..Len(instantiations.list) :
              (p < q) <=> LexBefore(matrix, p, q)

C8_Witness ==
    /\ instantiations.called
    /\ Len(matrix) = 2
    /\ matrix[1].key = <<"args">> /\ matrix[1].values = <<"2", "1">>
    /\ matrix[2].key = <<"a">> /\ matrix[2].values = <<"1", "2">>
    /\ instantiations.list =
          << << <<"args", "2">>, <<"a", "1">> >>,
             << <<"args", "2">>, <<"a", "2">> >>,
             << <<"args", "1">>, <<"a", "1">> >>,
             << <<"args", "1">>, <<"a", "2">> >> >>

\* The axes whose fragment in a combination names the field
AxesNaming(combination, field) ==
    {a \in 1..Len(combination) :
        \E p \in 1..Len(combination[a]) : combination[a][p][1] = field}

\* The value the fragment of axis a in a combination gives the field
FragmentValue(combination, a, field) ==
    LET p == CHOOSE q \in 1..Len(combination[a]) :
                 combination[a][q][1] = field
    IN  combination[a][p][2]

\* C22 as stated: in every instantiation, a field named by more than one
\* matrix axis has the value supplied by the earliest axis that names it.
C22_EarliestAxisWins ==
    (instantiations.called /\ instantiations.error = "none") =>
        LET combinations == Product(Shaped(matrix))
        IN  \A c \in 1..Len(combinations) :
                \A field \in DictKeys(instantiations.list[c]) :
                    LET naming == AxesNaming(combinations[c], field)
                        earliest == CHOOSE a \in naming :
                                        \A b \in naming : a <= b
                    IN  DictGet(instantiations.list[c], field)
                            = FragmentValue(combinations[c], earliest, field)

\* The fields an instantiation may override
OverridableFields ==
    {"sbatch_config", "environment_variables", "build_commands",
     "run_command", "args", "directory", "module_loads"}

\* C17 as stated: realising a run from an instantiation with a field name
\* that is not one of the overridable fields fails with a configuration
\* error.
C17_UnknownFieldRejected ==
    realised_runs.called =>
        \A i \in 1..Len(realised_runs.list) :
            (DictKeys(instantiations.list[i]) \ OverridableFields # {}) =>
                realised_runs.list[i].error # "none"

-----------------------------------------------------------------------------
(* Bounds of the aggregation inputs *)

MaxNumber == 4
MaxDiscard == 2

\* Raw metric strings, as captured by a regex group, and float(value)
RawValues == {"10", "20", "30"}

ExampleValues == <<"30", "10", "50", "20", "40">>

Float(value) ==
    CASE value = "10" -> 10
      [] value = "20" -> 20
      [] value = "30" -> 30
      [] value = "40" -> 40
      [] value = "50" -> 50

MetricNames == {"time"}

-----------------------------------------------------------------------------
(* bench_model.reruns: the model class is not among the sources *)

undiscarded_number(reruns_model) ==
    reruns_model.number
        - reruns_model.highest_discard - reruns_model.lowest_discard

-----------------------------------------------------------------------------
(* TestBench.aggregate_run_metrics *)

\* sorted(): insertion into an ascending list
RECURSIVE Insert(_, _)
Insert(x, s) ==
    IF s = <<>> THEN <<x>>
    ELSE IF x < Head(s) THEN <<x>> \o s
    ELSE <<Head(s)>> \o Insert(x, Tail(s))

RECURSIVE Sorted(_)
Sorted(s) == IF s = <<>> THEN <<>> ELSE Insert(Head(s), Sorted(Tail(s)))

Floats(values) == [i \in 1..Len(values) |-> Float(values[i])]

RECURSIVE Sum(_)
Sum(s) == IF s = <<>> THEN 0 ELSE Head(s) + Sum(Tail(s))

Squares(s) == [i \in 1..Len(s) |-> s[i] * s[i]]

\* pruned_values[:-1]
DropLast(s) == SubSeq(s, 1, Len(s) - 1)

\* pruned_values[1:]
DropFirst(s) == SubSeq(s, 2, Len(s))

\* The while loop that removes the highest then the lowest value in turn;
\* n_values is len(values)
RECURSIVE PruneLoop(_, _, _, _)
PruneLoop(pruned_values, highest_discard, lowest_discard, n_values) ==
    IF Len(pruned_values) > 1 /\ (highest_discard > 0 \/ lowest_discard > 0)
    THEN LET after_highest ==
                 IF highest_discard > 0 THEN DropLast(pruned_values)
                 ELSE pruned_values
             highest_left ==
                 IF highest_discard > 0 THEN highest_discard - 1
                 ELSE highest_discard
         IN  IF highest_discard > 0 /\ n_values <= 1
             THEN after_highest
             ELSE PruneLoop(
                     IF lowest_discard > 0 THEN DropFirst(after_highest)
                     ELSE after_highest,
                     highest_left,
                     IF lowest_discard > 0 THEN lowest_discard - 1
                     ELSE lowest_discard,
                     n_values)
    ELSE pruned_values

\* Mutant of PrunedValues: the values are trimmed without being sorted
PrunedValuesUnsorted(values, reruns_model) ==
    PruneLoop(Floats(values), reruns_model.highest_discard,
              reruns_model.lowest_discard, Len(values))

PrunedValues(values, reruns_model) ==
    PruneLoop(Sorted(Floats(values)), reruns_model.highest_discard,
              reruns_model.lowest_discard, Len(values))

\* statistics.fmean: the sum over the count, kept as a fraction;
\* StatisticsError on no data
Fmean(data) ==
    IF Len(data) < 1
    THEN [error |-> "StatisticsError", num |-> 0, den |-> 1]
    ELSE [error |-> "none", num |-> Sum(data), den |-> Len(data)]

\* statistics.stdev: the square root of the sample variance
\* (n * sum(x^2) - sum(x)^2) / (n * (n - 1)), kept as the fraction under the
\* root; StatisticsError on fewer than two data points
Stdev(data) ==
    IF Len(data) < 2
    THEN [error |-> "StatisticsError", sq_num |-> 0, sq_den |-> 1]
    ELSE [error  |-> "none",
          sq_num |-> Len(data) * Sum(Squares(data)) - Sum(data) * Sum(data),
          sq_den |-> Len(data) * (Len(data) - 1)]

ZeroStdev == [error |-> "none", sq_num |-> 0, sq_den |-> 1]

\* metric_stdev of lines 396-400
MetricStdev(pruned_values, reruns_model) ==
    IF undiscarded_number(reruns_model) >= 2
    THEN Stdev(pruned_values)
    ELSE ZeroStdev

\* An aggregated value: the raw string (kind "str") or UFloat(mean, stdev)
Passthrough(value) ==
    [kind |-> "str", raw |-> value, error |-> "none",
     mean_num |-> 0, mean_den |-> 1, sq_num |-> 0, sq_den |-> 1]

UFloat(metric_mean, metric_stdev) ==
    [kind |-> "ufloat", raw |-> "",
     error |-> IF metric_mean.error # "none" THEN metric_mean.error
               ELSE metric_stdev.error,
     mean_num |-> metric_mean.num, mean_den |-> metric_mean.den,
     sq_num |-> metric_stdev.sq_num, sq_den |-> metric_stdev.sq_den]

\* Mutant of AggregateMetric: the trimming comes before the test for a
\* metric that cannot be aggregated, and the first kept value is taken
AggregateMetricTrimFirst(metric, values, reruns_model) ==
    LET pruned_values == PruneLoop(values, reruns_model.highest_discard,
                                   reruns_model.lowest_discard, Len(values))
    IN  IF reruns_model.number = 1
            \/ metric \in reruns_model.unaggregatable_metrics
        THEN Passthrough(pruned_values[1])
        ELSE UFloat(Fmean(PrunedValues(values, reruns_model)),
                    MetricStdev(PrunedValues(values, reruns_model),
                                reruns_model))

\* The body of the loop over grouped_metrics.items()
AggregateMetric(metric, values, reruns_model) ==
    IF reruns_model.number = 1
        \/ metric \in reruns_model.unaggregatable_metrics
    THEN Passthrough(values[1])
    ELSE LET pruned_values == PrunedValues(values, reruns_model)
         IN  UFloat(Fmean(pruned_values),
                    MetricStdev(pruned_values, reruns_model))

\* grouped_metrics: metric -> the values of the jobs of the group, in order
RECURSIVE AppendMetrics(_, _)
AppendMetrics(grouped_metrics, metrics) ==
    IF metrics = <<>> THEN grouped_metrics
    ELSE LET metric == Head(metrics)[1]
             value == Head(metrics)[2]
             sofar == IF metric \in DictKeys(grouped_metrics)
                      THEN DictGet(grouped_metrics, metric) ELSE <<>>
         IN  AppendMetrics(DictSet(grouped_metrics, metric,
                                   Append(sofar, value)),
                           Tail(metrics))

RECURSIVE GroupedMetrics(_, _)
GroupedMetrics(grouped_metrics, jobs) ==
    IF jobs = <<>> THEN grouped_metrics
    ELSE GroupedMetrics(AppendMetrics(grouped_metrics, Head(jobs).metrics),
                        Tail(jobs))

\* One iteration of the loop over run_metrics: `present` says that
\* canonical_run_configuration is not None
AggregateGroup(rerun_group, reruns_model) ==
    LET grouped_metrics == GroupedMetrics(<<>>, rerun_group)
    IN  [present |-> rerun_group # <<>>,
         run_configuration |->
            IF rerun_group # <<>> THEN Head(rerun_group).run_configuration
            ELSE [name |-> "", instantiation |-> <<>>],
         metrics |->
            [i \in 1..Len(grouped_metrics) |->
                <<grouped_metrics[i][1],
                  AggregateMetric(grouped_metrics[i][1], grouped_metrics[i][2],
                                  reruns_model)>>]]

GroupRaises(aggregated_group) ==
    \E i \in 1..Len(aggregated_group.metrics) :
        aggregated_group.metrics[i][2].error # "none"

RECURSIVE SelectPresent(_)
SelectPresent(groups) ==
    IF groups = <<>> THEN <<>>
    ELSE IF Head(groups).present
         THEN <<[run_configuration |-> Head(groups).run_configuration,
                 metrics |-> Head(groups).metrics]>>
                  \o SelectPresent(Tail(groups))
         ELSE SelectPresent(Tail(groups))

AggregateRunMetrics(metrics_list, reruns_model) ==
    LET groups == [g \in 1..Len(metrics_list) |->
                      AggregateGroup(metrics_list[g], reruns_model)]
    IN  IF \E g \in 1..Len(groups) : GroupRaises(groups[g])
        THEN [error |-> "StatisticsError", list |-> <<>>]
        ELSE [error |-> "none", list |-> SelectPresent(groups)]

Aggregate ==
    /\ ~aggregated.called
    /\ aggregated' =
          [called |-> TRUE,
           error  |-> AggregateRunMetrics(run_metrics, reruns).error,
           list   |-> AggregateRunMetrics(run_metrics, reruns).list]
    /\ UNCHANGED <<benchVars, expandVars, waitVars, recordVars, run_outputs,
                   run_metrics, derived>>

-----------------------------------------------------------------------------
(* Inputs of the aggregation *)

RerunsInputs ==
    [number : 1..MaxNumber,
     highest_discard : 0..MaxDiscard,
     lowest_discard : 0..MaxDiscard,
     unaggregatable_metrics : {{}, {"time"}}]

\* The jobs of a rerun group that yielded metrics, with their values of the
\* metric "time"; job ids are `first`, `first` + 1, ...
GroupOf(values, first, run_configuration) ==
    [i \in 1..Len(values) |->
        [job_id |-> first + i - 1,
         run_configuration |-> run_configuration,
         metrics |-> << <<"time", values[i]>> >>]]

RefRun(arg) == [name |-> "ref", instantiation |-> << <<"args", arg>> >>]

\* One group of at most `number` jobs, or two groups of at most one job
RunMetricsInputs(number) ==
    {<<GroupOf(values, 1, RefRun("1"))>> :
        values \in SeqsUpTo(RawValues, number)}
    \cup
    {<<GroupOf(v1, 1, RefRun("1")), GroupOf(v2, 1 + number, RefRun("2"))>> :
        v1 \in SeqsUpTo(RawValues, 1), v2 \in SeqsUpTo(RawValues, 1)}

\* The example of the specification: five reruns, one discard at each end
ExampleReruns ==
    [number |-> 5, highest_discard |-> 1, lowest_discard |-> 1,
     unaggregatable_metrics |-> {}]

InitAgg ==
    /\ run_configuration_models = <<"ref">>
    /\ matrix = <<>>
    /\ analysis = NoAnalysis
    /\ instantiations = NotCalled
    /\ realised_runs = NotRealised
    /\ wait = NotWaiting
    /\ queue = {}
    /\ NothingRecorded
    /\ run_outputs = NoRunOutputs
    /\ \/ /\ reruns \in RerunsInputs
          /\ run_metrics \in RunMetricsInputs(reruns.number)
       \/ /\ reruns = ExampleReruns
          /\ run_metrics = <<GroupOf(ExampleValues, 1, RefRun("1"))>>
    /\ aggregated = NotAggregated
    /\ derived = NotDerived

NextAgg == Aggregate

SpecAgg == InitAgg /\ [][NextAgg]_vars

-----------------------------------------------------------------------------
(* Claims about the Rerun Aggregator, checked under SpecAgg *)

\* The raw values of metric "time" of the jobs of group g, in order
TimeValues(g) ==
    [i \in 1..Len(run_metrics[g]) |-> DictGet(run_metrics[g][i].metrics, "time")]

\* The metric is aggregated numerically: more than one rerun is configured
\* and the metric is not listed as unaggregatable
Aggregatable(metric) ==
    reruns.number > 1 /\ metric \notin reruns.unaggregatable_metrics

\* The position in the output list of the entry of group g (groups without
\* a job have no entry)
EntryIndex(g) == Cardinality({k \in 1..g : run_metrics[k] # <<>>})

\* The ascending order of s, by rank: position i holds the value that has
\* fewer than i values below it and at least i values not above it
Ascending(s) ==
    [i \in 1..Len(s) |->
        CHOOSE v \in Range(s) :
            /\ Cardinality({j \in 1..Len(s) : s[j] < v}) < i
            /\ i <= Cardinality({j \in 1..Len(s) : s[j] <= v})]

\* The ascending values without the lowest_discard smallest and the
\* highest_discard largest
Trimmed(values) ==
    SubSeq(Ascending(Floats(values)), reruns.lowest_discard + 1,
           Len(values) - reruns.highest_discard)

\* C9: for an aggregatable metric and a group with n > highest_discard +
\* lowest_discard raw values, the values kept by the trimming loop are the
\* ascending values without the highest_discard largest and the
\* lowest_discard smallest, the mean computed from them is their arithmetic
\* mean, and an aggregate that is reported carries that mean.
C9_TrimmedMean ==
    aggregated.called =>
        \A g \in 1..Len(run_metrics) :
            (/\ Aggregatable("time")
             /\ Len(run_metrics[g]) >
                    reruns.highest_discard + reruns.lowest_discard) =>
                LET kept == PrunedValues(TimeValues(g), reruns)
                IN  /\ kept = Trimmed(TimeValues(g))
                    /\ Fmean(kept).error = "none"
                    /\ Fmean(kept).num * Len(Trimmed(TimeValues(g)))
                         = Sum(Trimmed(TimeValues(g))) * Fmean(kept).den
                    /\ aggregated.error = "none" =>
                         LET value ==
                                 DictGet(aggregated.list[EntryIndex(g)].metrics,
                                         "time")
                         IN  /\ value.kind = "ufloat"
                             /\ value.mean_num * Len(Trimmed(TimeValues(g)))
                                  = Sum(Trimmed(TimeValues(g))) * value.mean_den

\* [30,10,50,20,40] with one discard at each end keeps [20,30,40], mean 30
C9_Witness ==
    /\ aggregated.called
    /\ aggregated.error = "none"
    /\ reruns = ExampleReruns
    /\ TimeValues(1) = ExampleValues
    /\ PrunedValues(TimeValues(1), reruns) = <<20, 30, 40>>
    /\ aggregated.list[1].metrics[1][2].mean_num = 90
    /\ aggregated.list[1].metrics[1][2].mean_den = 3

\* C10: for an aggregatable metric and every group with 1..number raw
\* values, the aggregate is reported, with the sample standard deviation of
\* the kept values when at least two values are kept and with an
\* uncertainty of zero otherwise.
C10_StdevOnlyWithTwoKept ==
    aggregated.called =>
        \A g \in 1..Len(run_metrics) :
            (/\ Aggregatable("time")
             /\ Len(run_metrics[g]) >= 1
             /\ Len(run_metrics[g]) <= reruns.number) =>
                LET kept == PrunedValues(TimeValues(g), reruns)
                IN  /\ aggregated.error = "none"
                    /\ LET value ==
                               DictGet(aggregated.list[EntryIndex(g)].metrics,
                                       "time")
                       IN  IF Len(kept) >= 2
                           THEN /\ value.sq_num = Stdev(kept).sq_num
                                /\ value.sq_den = Stdev(kept).sq_den
                           ELSE /\ value.sq_num = 0
                                /\ value.sq_den = 1

\* C11: when reruns.number is 1 or the metric is listed as unaggregatable,
\* the aggregated value of the metric for a rerun group is the raw string of
\* the first job of the group that yielded metrics, verbatim, whatever
\* highest_discard and lowest_discard are.
C11_FirstRawValue ==
    aggregated.called =>
        \A g \in 1..Len(run_metrics) :
            (~Aggregatable("time") /\ run_metrics[g] # <<>>) =>
                /\ aggregated.error = "none"
                /\ LET value ==
                           DictGet(aggregated.list[EntryIndex(g)].metrics,
                                   "time")
                   IN  /\ value.kind = "str"
                       /\ value.raw =
                             DictGet(run_metrics[g][1].metrics, "time")

\* Three reruns of an unaggregatable metric with discards at both ends: the
\* value of the first job is reported, not the lowest nor a trimmed one
C11_Witness ==
    /\ aggregated.called
    /\ reruns.number = 3
    /\ reruns.unaggregatable_metrics = {"time"}
    /\ reruns.highest_discard = 1
    /\ reruns.lowest_discard = 1
    /\ Len(run_metrics) = 1
    /\ TimeValues(1) = <<"30", "10", "20">>
    /\ aggregated.list[1].metrics = << <<"time", Passthrough("30")>> >>

\* C21 as stated: for an aggregatable metric, every group with n >= 1 raw
\* values and all highest_discard and lowest_discard >= 0, the trimming
\* keeps at least one value and a mean is computed; 2 values with one
\* discard at each end keep one value.
C21_TrimmingKeepsOne ==
    aggregated.called =>
        \A g \in 1..Len(run_metrics) :
            (Aggregatable("time") /\ Len(run_metrics[g]) >= 1) =>
                LET kept == PrunedValues(TimeValues(g), reruns)
                IN  /\ Len(kept) >= 1
                    /\ Fmean(kept).error = "none"
                    /\ (/\ Len(run_metrics[g]) = 2
                        /\ reruns.highest_discard = 1
                        /\ reruns.lowest_discard = 1) => Len(kept) = 1

-----------------------------------------------------------------------------
(* Bounds of the record passes *)

\* reruns.number is at most MaxReruns; a record pass starts only while the
\* scheduler's next job id is at most MaxJobId; at most MaxFailures
\* submissions fail in a behaviour
MaxReruns == 3
MaxJobId == 3
MaxFailures == 2

\* The run configurations of the bench, and the matrices recorded
ModelsInputs == {<<"ref">>, <<"ref", "opt">>}

RecordMatrices ==
    {<<>>,
     <<[key |-> <<"args">>, linked |-> FALSE, values |-> <<"1", "2">>]>>,
     <<[key |-> <<"args">>, linked |-> FALSE, values |-> <<>>]>>}

\* All subsets of S with at most k elements
RECURSIVE SubsetsUpTo(_, _)
SubsetsUpTo(S, k) ==
    IF k = 0 THEN {{}}
    ELSE LET smaller == SubsetsUpTo(S, k - 1)
         IN  smaller \cup {s \cup {x} : s \in smaller, x \in S}

-----------------------------------------------------------------------------
(* RunConfiguration and the ledger rows *)

\* RunConfigurationModel.realise(name, output_directory, instantiation): the
\* run configuration of that name with the instantiation attached; a new
\* RunConfiguration is not pre-built
Realise(name, instantiation) ==
    [name |-> name, instantiation |-> instantiation, pre_built |-> FALSE]

\* RunConfiguration.sbatch_contents, for fixed templates: the text varies
\* with the name, the instantiation and the build block
sbatch_contents(run_configuration) ==
    [name |-> run_configuration.name,
     instantiation |-> run_configuration.instantiation,
     build |-> IF run_configuration.pre_built
               THEN "echo 'run configuration was pre-built'"
               ELSE "build_commands"]

\* RunConfiguration.get_true_output_file_name: "<name>__<slurm_id>.out"
get_true_output_file_name(run_configuration, slurm_id) ==
    <<run_configuration.name, "__", slurm_id, ".out">>

RunConfigurationMetadata(job_id, rerun_count, name, file_name, instantiation) ==
    [job_id |-> job_id, rerun_count |-> rerun_count, name |-> name,
     output_file_name |-> file_name, instantiation |-> instantiation]

\* A CSV row holds text: the numbers as their decimal text and the
\* instantiation as the base64 text of its pickle
as_csv_row(metadata) ==
    [job_id |-> <<"str", metadata.job_id>>,
     rerun_count |-> <<"str", metadata.rerun_count>>,
     name |-> metadata.name,
     output_file_name |-> metadata.output_file_name,
     instantiation |-> <<"b64encode", <<"pickle", metadata.instantiation>> >>]

from_csv_row(row) ==
    [job_id |-> row.job_id[2],
     rerun_count |-> row.rerun_count[2],
     name |-> row.name,
     output_file_name |-> row.output_file_name,
     instantiation |-> row.instantiation[2][2]]

\* The text of an instantiation cell that is not the base64 text of a pickle
CorruptCell == <<"garbage", <<"garbage", <<>>>> >>

\* b64decode or pickle_loads raises on the instantiation cell of the row
Undecodable(row) ==
    \/ row.instantiation[1] # "b64encode"
    \/ row.instantiation[2][1] # "pickle"

\* The getter of run_configurations_metadata; `exists` FALSE is None, and
\* `error` is the exception from_csv_row raises on a row, which leaves the
\* getter before any list is returned
run_configurations_metadata(file) ==
    IF \E i \in 1..Len(file.rows) : Undecodable(file.rows[i])
    THEN [exists |-> file.exists, error |-> "UnpicklingError", list |-> <<>>]
    ELSE [exists |-> file.exists, error |-> "none",
          list |-> [i \in 1..Len(file.rows) |-> from_csv_row(file.rows[i])]]

\* Mutant of WriteMetadata: the existing rows are not written back
WriteMetadataTruncating(file, metadata) ==
    [exists |-> TRUE,
     rows |-> [i \in 1..Len(metadata) |-> as_csv_row(metadata[i])]]

\* Mutant of WriteMetadata: the file is opened for writing, and so emptied,
\* before the existing rows are read
WriteMetadataOpeningFirst(file, metadata) ==
    LET existing_metadata == run_configurations_metadata(file)
    IN  IF existing_metadata.error # "none"
        THEN [exists |-> TRUE, rows |-> <<>>]
        ELSE [exists |-> TRUE,
              rows |->
                 (IF existing_metadata.exists
                  THEN [i \in 1..Len(existing_metadata.list) |->
                           as_csv_row(existing_metadata.list[i])]
                  ELSE <<>>)
                 \o [i \in 1..Len(metadata) |-> as_csv_row(metadata[i])]]

\* The setter of run_configurations_metadata: the file is rewritten with the
\* existing rows followed by the new ones. The existing rows are read before
\* the file is opened for writing: when that read raises, the file is as it
\* was
WriteMetadata(file, metadata) ==
    LET existing_metadata == run_configurations_metadata(file)
    IN  IF existing_metadata.error # "none" THEN file
        ELSE [exists |-> TRUE,
              rows |->
                 (IF existing_metadata.exists
                  THEN [i \in 1..Len(existing_metadata.list) |->
                           as_csv_row(existing_metadata.list[i])]
                  ELSE <<>>)
                 \o [i \in 1..Len(metadata) |-> as_csv_row(metadata[i])]]

-----------------------------------------------------------------------------
(* TestBench.record *)

\* The locals of record when its loops start. `attempt` counts the calls of
\* RunConfiguration.run, `next_id` is the scheduler's next job id; `group`
\* numbers the iterations of the loop over the run configurations (one per
\* configuration and instantiation) and `rerun` is the index of the
\* innermost loop.
LoopStart(first_id) ==
    [first_job_id |-> NoJob,
     group |-> 0,
     rerun |-> 0,
     run_configuration |-> Realise("", <<>>),
     rerun_map |-> <<>>,
     run_configuration_job_ids |-> <<>>,
     dry_run_outputs |-> <<>>,
     submissions |-> <<>>,
     attempt |-> 0,
     next_id |-> first_id]

\* RunConfiguration.run(dependencies): the script is submitted with sbatch;
\* the scheduler answers with a new job id, or the submission fails (the
\* attempts in `failing`) and run returns None. The call is logged.
Run(st, dependencies, failing) ==
    LET job_id == IF (st.attempt + 1) \in failing THEN NoJob ELSE st.next_id
    IN  [st EXCEPT
            !.attempt = @ + 1,
            !.next_id = IF job_id = NoJob THEN @ ELSE @ + 1,
            !.submissions =
                Append(@, [group |-> st.group,
                           rerun |-> st.rerun,
                           name |-> st.run_configuration.name,
                           instantiation |-> st.run_configuration.instantiation,
                           script |-> sbatch_contents(st.run_configuration),
                           dependencies |-> dependencies,
                           job_id |-> job_id])]

\* The job id returned by the last call of run
LastJobId(st) == st.submissions[Len(st.submissions)].job_id

\* Mutant of Store: a job that failed to queue is stored too
StoreFailedToo(st) ==
    [st EXCEPT !.rerun_map =
        DictSet(@, LastJobId(st),
                [name |-> st.run_configuration.name,
                 instantiation |-> st.run_configuration.instantiation])]

\* rerun_map[job_id] = run_configuration, unless the job failed to queue
Store(st) ==
    IF LastJobId(st) = NoJob THEN st
    ELSE [st EXCEPT !.rerun_map =
            DictSet(@, LastJobId(st),
                    [name |-> st.run_configuration.name,
                     instantiation |-> st.run_configuration.instantiation])]

\* Mutant of RerunStep: first_job_id is forgotten when a new rerun group
\* starts, so every group has a first job of its own
RerunStepPerGroup(st, dry_run, failing) ==
    LET fresh == IF st.rerun = 0 THEN [st EXCEPT !.first_job_id = NoJob]
                 ELSE st
    IN  IF dry_run
        THEN [fresh EXCEPT
                 !.dry_run_outputs =
                     Append(@, sbatch_contents(fresh.run_configuration)),
                 !.run_configuration.pre_built = TRUE]
        ELSE IF fresh.first_job_id = NoJob
        THEN LET ran == Run(fresh, <<>>, failing)
             IN  Store([ran EXCEPT !.first_job_id = LastJobId(ran)])
        ELSE LET built == [fresh EXCEPT !.run_configuration.pre_built = TRUE]
             IN  Store(Run(built, <<fresh.first_job_id>>, failing))

\* Mutant of RerunStep: a job submitted with a dependency keeps its build
\* commands
RerunStepRebuilding(st, dry_run, failing) ==
    IF st.first_job_id = NoJob
    THEN IF dry_run
         THEN [st EXCEPT
                 !.dry_run_outputs =
                     Append(@, sbatch_contents(st.run_configuration)),
                 !.run_configuration.pre_built = TRUE]
         ELSE LET ran == Run(st, <<>>, failing)
              IN  Store([ran EXCEPT !.first_job_id = LastJobId(ran)])
    ELSE IF dry_run
         THEN [st EXCEPT
                 !.dry_run_outputs =
                     Append(@, sbatch_contents(st.run_configuration))]
         ELSE Store(Run(st, <<st.first_job_id>>, failing))

\* Mutant of RerunStep: a dry run prints the script and goes on to submit it
RerunStepDryRunSubmits(st, dry_run, failing) ==
    LET printed == IF dry_run
                   THEN [st EXCEPT !.dry_run_outputs =
                            Append(@, sbatch_contents(st.run_configuration))]
                   ELSE st
    IN  IF printed.first_job_id = NoJob
        THEN LET ran == Run(printed, <<>>, failing)
             IN  Store([ran EXCEPT !.first_job_id = LastJobId(ran)])
        ELSE LET built ==
                     [printed EXCEPT !.run_configuration.pre_built = TRUE]
             IN  Store(Run(built, <<printed.first_job_id>>, failing))

\* One iteration of the loop over range(reruns.number), lines 222-242
RerunStep(st, dry_run, failing) ==
    IF st.first_job_id = NoJob
    THEN IF dry_run
         THEN [st EXCEPT
                 !.dry_run_outputs =
                     Append(@, sbatch_contents(st.run_configuration)),
                 !.run_configuration.pre_built = TRUE]
         ELSE LET ran == Run(st, <<>>, failing)
              IN  Store([ran EXCEPT !.first_job_id = LastJobId(ran)])
    ELSE IF dry_run
         THEN [st EXCEPT
                 !.dry_run_outputs =
                     Append(@, sbatch_contents(st.run_configuration))]
         ELSE LET built == [st EXCEPT !.run_configuration.pre_built = TRUE]
              IN  Store(Run(built, <<st.first_job_id>>, failing))

\* The loop over range(reruns.number), from index `rerun` on
RECURSIVE Reruns(_, _, _, _, _)
Reruns(st, rerun, number, dry_run, failing) ==
    IF rerun >= number THEN st
    ELSE Reruns(RerunStep([st EXCEPT !.rerun = rerun], dry_run, failing),
                rerun + 1, number, dry_run, failing)

\* The loop over the run configurations of one model, lines 219-243
RECURSIVE RunConfigurations(_, _, _, _, _)
RunConfigurations(st, realised, number, dry_run, failing) ==
    IF realised = <<>> THEN st
    ELSE LET start == [st EXCEPT !.run_configuration = Head(realised),
                                 !.rerun_map = <<>>,
                                 !.group = @ + 1]
             done == Reruns(start, 0, number, dry_run, failing)
         IN  RunConfigurations(
                [done EXCEPT !.run_configuration_job_ids =
                                Append(@, done.rerun_map)],
                Tail(realised), number, dry_run, failing)

\* The loop over realised_run_configurations.values(), lines 215-243
RECURSIVE Models(_, _, _, _, _, _)
Models(st, names, insts, number, dry_run, failing) ==
    IF names = <<>> THEN st
    ELSE Models(
            RunConfigurations(
                [st EXCEPT !.first_job_id = NoJob],
                [i \in 1..Len(insts) |-> Realise(Head(names), insts[i])],
                number, dry_run, failing),
            Tail(names), insts, number, dry_run, failing)

\* Mutant of MetadataOf: every row has rerun count zero
MetadataOfUnnumbered(rerun_map) ==
    [i \in 1..Len(rerun_map) |->
        RunConfigurationMetadata(
            rerun_map[i][1], 0, rerun_map[i][2].name,
            get_true_output_file_name(rerun_map[i][2], rerun_map[i][1]),
            rerun_map[i][2].instantiation)]

\* The rows of one rerun map, lines 260-262
MetadataOf(rerun_map) ==
    [i \in 1..Len(rerun_map) |->
        RunConfigurationMetadata(
            rerun_map[i][1], i - 1, rerun_map[i][2].name,
            get_true_output_file_name(rerun_map[i][2], rerun_map[i][1]),
            rerun_map[i][2].instantiation)]

\* Mutant of NewMetadata: the rerun count runs on from one rerun map to the
\* next
NewMetadataContinuing(run_configuration_job_ids) ==
    MetadataOf(Flatten(run_configuration_job_ids))

\* The list written at lines 251-263
NewMetadata(run_configuration_job_ids) ==
    Flatten([g \in 1..Len(run_configuration_job_ids) |->
                MetadataOf(run_configuration_job_ids[g])])

\* The number of calls of run a pass of this bench makes
Attempts ==
    Len(run_configuration_models) * Len(Instantiations(matrix).list)
        * reruns.number

\* TestBench.record(args); `failing` are the submissions the scheduler
\* rejects
Record(dry_run, no_clobber, failing) ==
    LET clobbered == ~no_clobber /\ output_directory_exists
        directory == IF clobbered THEN FALSE ELSE output_directory_exists
        file == IF clobbered THEN NoLedger ELSE ledger
        expanded == Instantiations(matrix)
        end == Models(LoopStart(next_job_id), run_configuration_models,
                      expanded.list, reruns.number, dry_run, failing)
        \* run() creates the output directory before it submits
        directory_after == directory \/ end.attempt > 0
    IN  /\ args' = [dry_run |-> dry_run, no_clobber |-> no_clobber]
        /\ ledger_before' = ledger
        /\ recorded' = TRUE
        /\ failures' = failures + Cardinality(failing)
        \* rmtree removes the job output files with the directory
        /\ output_files' = IF clobbered THEN <<>> ELSE output_files
        /\ run_outputs' = NoRunOutputs
        \* the jobs sbatch accepted are in the scheduler's queue
        /\ queue' = IF expanded.error # "none" THEN queue
                    ELSE queue \cup ({end.submissions[k].job_id :
                                        k \in 1..Len(end.submissions)}
                                     \ {NoJob})
        /\ IF expanded.error # "none"
           THEN /\ record_error' = expanded.error
                /\ output_directory_exists' = directory
                /\ ledger' = file
                /\ UNCHANGED next_job_id
                /\ submissions' = <<>>
                /\ dry_run_outputs' = <<>>
           ELSE /\ next_job_id' = end.next_id
                /\ submissions' = end.submissions
                /\ dry_run_outputs' = end.dry_run_outputs
                /\ output_directory_exists' = directory_after
                /\ IF dry_run
                   THEN /\ record_error' = "none"
                        /\ ledger' = file
                   ELSE IF ~directory_after
                   THEN \* open("w+") in a directory that does not exist
                        /\ record_error' = "FileNotFoundError"
                        /\ ledger' = file
                   ELSE /\ record_error' =
                              run_configurations_metadata(file).error
                        /\ ledger' = WriteMetadata(
                              file, NewMetadata(end.run_configuration_job_ids))
        /\ run_metrics' = <<>>
        /\ aggregated' = NotAggregated
        /\ derived' = NotDerived
        /\ UNCHANGED <<benchVars, expandVars, wait>>

RecordPass ==
    /\ next_job_id <= MaxJobId
    /\ \E dry_run \in BOOLEAN, no_clobber \in BOOLEAN :
          \E failing \in SubsetsUpTo(1..Attempts, MaxFailures - failures) :
              /\ (dry_run => failing = {})
              /\ Record(dry_run, no_clobber, failing)

-----------------------------------------------------------------------------
(* TestBench.get_run_outputs *)

\* The output None of a job without an output file
NoOutput == [exists |-> FALSE, text |-> <<>>]

\* RunConfiguration.collect(slurm_id): the text of the output file of the
\* job, None when the file does not exist. `files` is the directory: file
\* name -> text.
collect(run_configuration, slurm_id, files) ==
    LET output_file == get_true_output_file_name(run_configuration, slurm_id)
    IN  IF output_file \notin DictKeys(files) THEN NoOutput
        ELSE [exists |-> TRUE, text |-> DictGet(files, output_file)]

\* The locals of the reconstruction loop
ReconstructStart ==
    [prev_rerun_count |-> -1, rerun_group |-> <<>>,
     reconstructed_run_configurations |-> <<>>]

\* Mutant of ReconstructStep: a new group starts only when the rerun count
\* goes down
ReconstructStepOnDecrease(st, metadata, models) ==
    LET split == /\ metadata.rerun_count < st.prev_rerun_count
                 /\ Len(st.rerun_group) > 0
        group == IF split THEN <<>> ELSE st.rerun_group
    IN  [prev_rerun_count |-> metadata.rerun_count,
         rerun_group |->
            IF metadata.name \notin Range(models) THEN group
            ELSE DictSet(group, metadata.job_id,
                         Realise(metadata.name, metadata.instantiation)),
         reconstructed_run_configurations |->
            IF split THEN Append(st.reconstructed_run_configurations,
                                 st.rerun_group)
            ELSE st.reconstructed_run_configurations]

\* One iteration of the loop over the metadata, lines 292-305
ReconstructStep(st, metadata, models) ==
    LET split == /\ metadata.rerun_count # st.prev_rerun_count + 1
                 /\ Len(st.rerun_group) > 0
        group == IF split THEN <<>> ELSE st.rerun_group
    IN  [prev_rerun_count |-> metadata.rerun_count,
         rerun_group |->
            IF metadata.name \notin Range(models) THEN group
            ELSE DictSet(group, metadata.job_id,
                         Realise(metadata.name, metadata.instantiation)),
         reconstructed_run_configurations |->
            IF split THEN Append(st.reconstructed_run_configurations,
                                 st.rerun_group)
            ELSE st.reconstructed_run_configurations]

RECURSIVE Reconstruct(_, _, _)
Reconstruct(st, metadata_list, models) ==
    IF metadata_list = <<>>
    THEN Append(st.reconstructed_run_configurations, st.rerun_group)
    ELSE Reconstruct(ReconstructStep(st, Head(metadata_list), models),
                     Tail(metadata_list), models)

\* get_run_outputs: None (`exists` FALSE) without a metadata file, else the
\* rerun groups, each the list of its jobs in order with their outputs
GetRunOutputs(file, models, files) ==
    LET metadata == run_configurations_metadata(file)
        groups == Reconstruct(ReconstructStart, metadata.list, models)
    IN  IF ~metadata.exists \/ metadata.error # "none"
        THEN [exists |-> FALSE, error |-> metadata.error, groups |-> <<>>]
        ELSE [exists |-> TRUE, error |-> "none",
              groups |->
                 [g \in 1..Len(groups) |->
                    [i \in 1..Len(groups[g]) |->
                        [job_id |-> groups[g][i][1],
                         run_configuration |-> groups[g][i][2],
                         output |-> collect(groups[g][i][2],
                                            groups[g][i][1], files)]]]]

-----------------------------------------------------------------------------
(* TestBench.extract_metrics and TestBench.get_run_metrics *)

\* re.search(regex, output).group(1). An output text is a sequence of lines
\* <<label, value>>; the pattern of a metric is given by the label of the
\* lines it matches and captures the value of the first such line.
re_search(regex, output) ==
    IF \E i \in 1..Len(output) : output[i][1] = regex
    THEN [matched |-> TRUE,
          group1 |-> output[CHOOSE i \in 1..Len(output) :
                               /\ output[i][1] = regex
                               /\ \A j \in 1..(i - 1) : output[j][1] # regex][2]]
    ELSE [matched |-> FALSE, group1 |-> ""]

\* The loop over analysis.metrics.items(), lines 272-277; `extracted` FALSE
\* is the return of None
RECURSIVE ExtractLoop(_, _, _)
ExtractLoop(metrics, patterns, output) ==
    IF patterns = <<>> THEN [extracted |-> TRUE, metrics |-> metrics]
    ELSE LET metric_search == re_search(Head(patterns)[2], output)
         IN  IF ~metric_search.matched
             THEN [extracted |-> FALSE, metrics |-> <<>>]
             ELSE ExtractLoop(DictSet(metrics, Head(patterns)[1],
                                      metric_search.group1),
                              Tail(patterns), output)

extract_metrics(output, patterns) == ExtractLoop(<<>>, patterns, output)

\* The inner loop of get_run_metrics, lines 326-342
RECURSIVE RerunMetrics(_, _)
RerunMetrics(rerun_group, patterns) ==
    IF rerun_group = <<>> THEN <<>>
    ELSE LET job == Head(rerun_group)
             rest == RerunMetrics(Tail(rerun_group), patterns)
         IN  IF ~job.output.exists THEN rest
             ELSE IF ~extract_metrics(job.output.text, patterns).extracted
             THEN rest
             ELSE <<[job_id |-> job.job_id,
                     run_configuration |-> job.run_configuration,
                     metrics |->
                        extract_metrics(job.output.text, patterns).metrics]>>
                  \o rest

get_run_metrics(groups, patterns) ==
    [g \in 1..Len(groups) |-> RerunMetrics(groups[g], patterns)]

-----------------------------------------------------------------------------
(* TestBench.calculate_derived_metrics *)

\* str(value).replace('/', '').replace(' ', '_')
ReprValue(value) ==
    CASE value = "a b" -> "a_b"
      [] value = "a/b" -> "ab"
      [] OTHER -> value

\* RunConfiguration.get_instantiation_repr: "name=value" joined by commas
get_instantiation_repr(instantiation) ==
    [i \in 1..Len(instantiation) |->
        <<instantiation[i][1], "=", ReprValue(instantiation[i][2])>>]

\* d[k] of a dict of dicts, the empty dict for a key not yet in d
SubDict(d, k) == IF k \in DictKeys(d) THEN DictGet(d, k) ELSE <<>>

\* The first loop, lines 421-433. The metrics dicts are shared with the
\* input list: all_metrics holds the position k of the entry whose dict it
\* refers to.
RECURSIVE NumberLoop(_, _, _)
NumberLoop(st, input_metrics, k) ==
    IF k > Len(input_metrics) THEN st
    ELSE LET name == input_metrics[k].run_configuration.name
             numbers == SubDict(st.instantiation_numbers, name)
             instantiation_number == Len(numbers)
         IN  NumberLoop(
                [instantiation_numbers |->
                    DictSet(st.instantiation_numbers, name,
                        DictSet(numbers,
                            get_instantiation_repr(
                                input_metrics[k].run_configuration
                                    .instantiation),
                            instantiation_number)),
                 all_metrics |->
                    DictSet(st.all_metrics, name,
                        DictSet(SubDict(st.all_metrics, name),
                                instantiation_number, k))],
                input_metrics, k + 1)

\* _corresponding_metrics, lines 445-456: name -> position of the entry
RECURSIVE CorrespondingMetrics(_, _, _)
CorrespondingMetrics(context, all_metrics, instantiation_number) ==
    IF all_metrics = <<>> THEN context
    ELSE LET name == Head(all_metrics)[1]
             of_name == Head(all_metrics)[2]
         IN  CorrespondingMetrics(
                IF instantiation_number \in DictKeys(of_name)
                THEN DictSet(context, name,
                             DictGet(of_name, instantiation_number))
                ELSE context,
                Tail(all_metrics), instantiation_number)

NoValue == Passthrough("")

\* eval(derivation): a formula looks a metric up in the entry of another
\* run configuration for this instantiation number (_corresponding_metrics
\* [name][metric]) or in the entry of this run configuration at another
\* instantiation number (_sequential_metrics[index][metric]); a missing key
\* raises KeyError. `store` holds the metrics dicts by position.
Eval(derivation, corresponding, sequential, store) ==
    LET table == IF derivation.op = "corresponding" THEN corresponding
                 ELSE sequential
        key == IF derivation.op = "corresponding" THEN derivation.name
               ELSE derivation.index
    IN  IF \A i \in 1..Len(table) : table[i][1] # key
        THEN [error |-> "KeyError", value |-> NoValue]
        ELSE LET position ==
                     table[CHOOSE i \in 1..Len(table) : table[i][1] = key][2]
             IN  IF derivation.metric \notin DictKeys(store[position])
                 THEN [error |-> "KeyError", value |-> NoValue]
                 ELSE [error |-> "none",
                       value |-> DictGet(store[position], derivation.metric)]

\* The loop over derived_metrics.items(), lines 462-469, for the entry at
\* position k; an exception ends it
RECURSIVE DeriveEntry(_, _, _, _, _)
DeriveEntry(st, k, derived_metrics, corresponding, sequential) ==
    IF derived_metrics = <<>> \/ st.error # "none" THEN st
    ELSE LET result == Eval(Head(derived_metrics)[2], corresponding,
                            sequential, st.store)
         IN  DeriveEntry(
                IF result.error # "none"
                THEN [st EXCEPT !.error = result.error]
                ELSE [st EXCEPT !.store[k] =
                         DictSet(@, Head(derived_metrics)[1], result.value)],
                k, Tail(derived_metrics), corresponding, sequential)

\* The second loop, lines 435-470; an exception ends it
RECURSIVE DeriveLoop(_, _, _, _, _)
DeriveLoop(st, numbered, input_metrics, derived_metrics, k) ==
    IF k > Len(input_metrics) \/ st.error # "none" THEN st
    ELSE LET run_configuration == input_metrics[k].run_configuration
             instantiation_number ==
                 DictGet(DictGet(numbered.instantiation_numbers,
                                 run_configuration.name),
                         get_instantiation_repr(
                             run_configuration.instantiation))
             corresponding ==
                 CorrespondingMetrics(<<>>, numbered.all_metrics,
                                      instantiation_number)
             sequential == DictGet(numbered.all_metrics,
                                   run_configuration.name)
             done == DeriveEntry(
                        [st EXCEPT !.contexts =
                            Append(@, [position |-> k,
                                       number |-> instantiation_number,
                                       corresponding |-> corresponding,
                                       sequential |-> sequential])],
                        k, derived_metrics, corresponding, sequential)
         IN  DeriveLoop(
                IF done.error # "none" THEN done
                ELSE [done EXCEPT !.output_metrics = Append(@, k)],
                numbered, input_metrics, derived_metrics, k + 1)

\* calculate_derived_metrics(input_metrics). `contexts` lists, for every
\* entry the second loop reached, its instantiation_number and the
\* _corresponding_metrics and _sequential_metrics built for it, as name ->
\* position and number -> position in input_metrics; the list is returned
\* only when no formula raised.
calculate_derived_metrics(input_metrics, derived_metrics) ==
    LET numbered ==
            NumberLoop([instantiation_numbers |-> <<>>, all_metrics |-> <<>>],
                       input_metrics, 1)
        end == DeriveLoop(
                  [store |-> [k \in 1..Len(input_metrics) |->
                                 input_metrics[k].metrics],
                   output_metrics |-> <<>>, contexts |-> <<>>,
                   error |-> "none"],
                  numbered, input_metrics, derived_metrics, 1)
    IN  [called |-> TRUE,
         error |-> end.error,
         list |-> IF end.error # "none" THEN <<>>
                  ELSE [i \in 1..Len(end.output_metrics) |->
                           [run_configuration |->
                               input_metrics[end.output_metrics[i]]
                                   .run_configuration,
                            metrics |-> end.store[end.output_metrics[i]]]],
         contexts |-> end.contexts]

-----------------------------------------------------------------------------
(* TestBench.report *)

\* report(): the run outputs are read back from the ledger and the output
\* files, the metrics extracted and aggregated and the derived metrics
\* calculated. Nothing is computed without a metadata file, and an
\* exception ends the call.
Report ==
    /\ ~run_outputs.called
    /\ LET outputs == GetRunOutputs(ledger, run_configuration_models,
                                    output_files)
           metrics == get_run_metrics(outputs.groups, analysis.metrics)
           aggregated_metrics == AggregateRunMetrics(metrics, reruns)
       IN  /\ run_outputs' = [called |-> TRUE, exists |-> outputs.exists,
                              error |-> outputs.error,
                              groups |-> outputs.groups]
           /\ IF ~outputs.exists
              THEN /\ run_metrics' = <<>>
                   /\ aggregated' = NotAggregated
                   /\ derived' = NotDerived
              ELSE /\ run_metrics' = metrics
                   /\ aggregated' = [called |-> TRUE,
                                     error |-> aggregated_metrics.error,
                                     list |-> aggregated_metrics.list]
                   /\ derived' =
                         IF aggregated_metrics.error # "none" THEN NotDerived
                         ELSE calculate_derived_metrics(
                                  aggregated_metrics.list,
                                  analysis.derived_metrics)
    /\ UNCHANGED <<benchVars, expandVars, waitVars, recordVars>>

\* The tool is started again on an edited YAML file: the bench names other
\* run configurations
ReloadPlan ==
    /\ recorded
    /\ \E models \in ModelsInputs \ {run_configuration_models} :
          run_configuration_models' = models
    /\ run_outputs' = NoRunOutputs
    /\ run_metrics' = <<>>
    /\ aggregated' = NotAggregated
    /\ derived' = NotDerived
    /\ UNCHANGED <<matrix, reruns, analysis, expandVars, waitVars, recordVars>>

Init ==
    /\ run_configuration_models \in ModelsInputs
    /\ matrix \in RecordMatrices
    /\ reruns \in {[DefaultReruns EXCEPT !.number = n] : n \in 1..MaxReruns}
    /\ analysis = NoAnalysis
    /\ instantiations = NotCalled
    /\ realised_runs = NotRealised
    /\ wait = NotWaiting
    /\ queue = {}
    /\ NothingRecorded
    /\ run_outputs = NoRunOutputs
    /\ run_metrics = <<>>
    /\ aggregated = NotAggregated
    /\ derived = NotDerived

Next == RecordPass \/ Report \/ ReloadPlan

Spec == Init /\ [][Next]_vars

-----------------------------------------------------------------------------
(* calculate_derived_metrics on lists of aggregated entries whose           *)
(* instantiations hold spaces, underscores and slashes                      *)

\* An input list has at most MaxEntries entries
MaxEntries == 3

\* Values of the field args: the first two have the same canonical string
\* form, and so have the last two
ArgsValues == {"a b", "a_b", "a/b", "ab"}

DeriveEntries ==
    {[run_configuration |->
         [name |-> name, instantiation |-> << <<"args", value>> >>,
          pre_built |-> FALSE],
      metrics |-> << <<"time", Passthrough("10")>> >>] :
        name \in {"ref", "opt"}, value \in ArgsValues}

\* report() hands the aggregated entries to calculate_derived_metrics
Derive ==
    /\ aggregated.called
    /\ aggregated.error = "none"
    /\ ~derived.called
    /\ derived' = calculate_derived_metrics(aggregated.list,
                                            analysis.derived_metrics)
    /\ UNCHANGED <<benchVars, expandVars, waitVars, recordVars, run_outputs,
                   run_metrics, aggregated>>

InitDerive ==
    /\ run_configuration_models = <<"ref", "opt">>
    /\ matrix = <<>>
    /\ reruns = DefaultReruns
    /\ analysis = [metrics |-> << <<"time", "real">> >>, derived_metrics |-> <<>>]
    /\ instantiations = NotCalled
    /\ realised_runs = NotRealised
    /\ wait = NotWaiting
    /\ queue = {}
    /\ NothingRecorded
    /\ run_outputs = NoRunOutputs
    /\ run_metrics = <<>>
    /\ \E list \in SeqsUpTo(DeriveEntries, MaxEntries) :
          aggregated = [called |-> TRUE, error |-> "none", list |-> list]
    /\ derived = NotDerived

NextDerive == Derive

SpecDerive == InitDerive /\ [][NextDerive]_vars

-----------------------------------------------------------------------------
(* Record, run and report: the jobs a record pass queued are run by the     *)
(* scheduler and a report reads their output files                          *)

\* At most MaxBadOutputs jobs of a pass leave no output file or an output
\* that some pattern does not match
MaxBadOutputs == 1

TimeOnly == << <<"time", "real">> >>

TimeAndFlops == << <<"time", "real">>, <<"flops", "flops">> >>

\* Derived metrics: the time of "ref" for the same instantiation, and the
\* time of this run configuration for its first instantiation
Derivations ==
    << <<"ref time",
         [op |-> "corresponding", name |-> "ref", index |-> 0,
          metric |-> "time"]>>,
       <<"first time",
         [op |-> "sequential", name |-> "", index |-> 0,
          metric |-> "time"]>> >>

ArgsMatrix ==
    <<[key |-> <<"args">>, linked |-> FALSE, values |-> <<"1", "2">>]>>

\* A matrix of one instantiation
OneArgMatrix ==
    <<[key |-> <<"args">>, linked |-> FALSE, values |-> <<"1">>]>>

\* The benches reported: "ref" over two instantiations with three reruns of
\* which the highest is discarded; "ref" with two reruns and two metrics;
\* "ref" and "opt" with one run each; "ref" with one instantiation and one
\* run, which several record passes can follow each other on
ReportBenches ==
    {[models |-> <<"ref">>, matrix |-> ArgsMatrix,
      reruns |-> [DefaultReruns EXCEPT !.number = 3, !.highest_discard = 1],
      analysis |-> [metrics |-> TimeOnly, derived_metrics |-> <<>>]],
     [models |-> <<"ref">>, matrix |-> ArgsMatrix,
      reruns |-> [DefaultReruns EXCEPT !.number = 2],
      analysis |-> [metrics |-> TimeAndFlops, derived_metrics |-> <<>>]],
     [models |-> <<"ref", "opt">>, matrix |-> ArgsMatrix,
      reruns |-> DefaultReruns,
      analysis |-> [metrics |-> TimeOnly, derived_metrics |-> Derivations]],
     [models |-> <<"ref">>, matrix |-> OneArgMatrix,
      reruns |-> DefaultReruns,
      analysis |-> [metrics |-> TimeOnly, derived_metrics |-> <<>>]]}

\* The output texts every pattern matches: one line per pattern, the first
\* with any raw value
GoodTexts(patterns) ==
    {[i \in 1..Len(patterns) |->
         <<patterns[i][2], IF i = 1 THEN value ELSE "20">>] :
        value \in RawValues}

\* An output no pattern matches, and (with several patterns) outputs that
\* only the first pattern matches
BadTexts(patterns) ==
    {<< <<"error", "1">> >>}
    \cup (IF Len(patterns) < 2 THEN {}
          ELSE {<<text[1]>> : text \in GoodTexts(patterns)})

\* Stands for the output of a job that wrote no file
Lost == << <<"lost", "">> >>

\* The file of row k of the ledger when its job has written `text`
OutputFile(k, text) ==
    LET row == ledger.rows[k]
    IN  <<get_true_output_file_name([name |-> row.name], row.job_id[2]), text>>

\* The jobs of the ledger run: each writes its output file, except those
\* that `texts` maps to Lost
RECURSIVE WrittenFiles(_, _)
WrittenFiles(k, texts) ==
    IF k > Len(texts) THEN <<>>
    ELSE (IF texts[k] = Lost THEN <<>> ELSE <<OutputFile(k, texts[k])>>)
         \o WrittenFiles(k + 1, texts)

JobsFinish ==
    /\ ledger.exists
    /\ ledger.rows # <<>>
    /\ output_files = <<>>
    /\ \E texts \in [1..Len(ledger.rows) ->
                        GoodTexts(analysis.metrics)
                        \cup BadTexts(analysis.metrics) \cup {Lost}] :
          /\ Cardinality({k \in 1..Len(texts) :
                            texts[k] \notin GoodTexts(analysis.metrics)})
                <= MaxBadOutputs
          /\ output_files' = WrittenFiles(1, texts)
    \* the jobs of the ledger have left the queue
    /\ queue' = queue \ {ledger.rows[k].job_id[2] : k \in 1..Len(ledger.rows)}
    /\ UNCHANGED <<benchVars, expandVars, wait, output_directory_exists, ledger,
                   next_job_id, args, record_error, submissions,
                   dry_run_outputs, ledger_before, recorded, failures,
                   run_outputs, aggVars>>

\* A record pass in which the scheduler accepts every submission
RecordQueued ==
    /\ next_job_id <= MaxJobId
    /\ \E no_clobber \in BOOLEAN : Record(FALSE, no_clobber, {})

InitReport ==
    /\ \E bench \in ReportBenches :
          /\ run_configuration_models = bench.models
          /\ matrix = bench.matrix
          /\ reruns = bench.reruns
          /\ analysis = bench.analysis
    /\ instantiations = NotCalled
    /\ realised_runs = NotRealised
    /\ wait = NotWaiting
    /\ queue = {}
    /\ NothingRecorded
    /\ run_outputs = NoRunOutputs
    /\ run_metrics = <<>>
    /\ aggregated = NotAggregated
    /\ derived = NotDerived

NextReport == RecordQueued \/ JobsFinish \/ Report

SpecReport == InitReport /\ [][NextReport]_vars

-----------------------------------------------------------------------------
(* TestBench.wait_for_queue, called by TestPlan.record_all after the record *)
(* passes, while the scheduler runs the queued jobs                        *)

\* The values of max_time_to_wait are 0..MaxTimeToWait
MaxTimeToWait == 3

\* A backoff schedule has at most MaxBackoff entries, each in 1..MaxSleep
MaxBackoff == 2

MaxSleep == 2

\* The schedule used when backoff is None or empty
DefaultBackoff == <<5, 10, 15, 30, 60>>

BackoffInputs == SeqsUpTo(1..MaxSleep, MaxBackoff)

\* The id of a job of the same user that no bench of the plan submitted
ForeignJob == 100

\* TestBench.all_job_ids: the job ids of the rows of the metadata file
all_job_ids(file) ==
    LET metadata == run_configurations_metadata(file)
    IN  IF ~metadata.exists THEN <<>>
        ELSE [i \in 1..Len(metadata.list) |-> metadata.list[i].job_id]

\* get_queued_job_ids(): what squeue lists for the user
get_queued_job_ids == queue

\* Mutant of Drained: true as soon as one required job has left the queue
DrainedWhenOneLeft(required_jobs, queued_jobs) ==
    Cardinality(required_jobs \ queued_jobs) >= 1

\* The test of line 179
Drained(required_jobs, queued_jobs) ==
    Cardinality(required_jobs \ queued_jobs) = Cardinality(required_jobs)

\* Mutant of NextBackoffIndex: the schedule is never advanced
NextBackoffIndexStuck(backoff_index, backoff) == backoff_index

\* Lines 188-189: the index advances until it is at the last entry
NextBackoffIndex(backoff_index, backoff) ==
    IF backoff_index < Len(backoff) - 1 THEN backoff_index + 1
    ELSE backoff_index

\* The call: lines 168-172
WaitStart ==
    /\ wait.pc = "idle"
    /\ recorded
    /\ \E max_time_to_wait \in 0..MaxTimeToWait, backoff \in BackoffInputs :
          wait' = [NotWaiting EXCEPT
                     !.pc = "loop",
                     !.max_time_to_wait = max_time_to_wait,
                     !.backoff = IF Len(backoff) < 1 THEN DefaultBackoff
                                 ELSE backoff]
    /\ UNCHANGED <<benchVars, expandVars, queue, recordVars, run_outputs,
                   aggVars>>

\* One iteration of the loop: lines 173-189
WaitIteration ==
    /\ wait.pc = "loop"
    /\ wait.time_waited < wait.max_time_to_wait
    /\ LET wait_time == wait.backoff[wait.backoff_index + 1]
           queued_jobs == get_queued_job_ids
           required_jobs == Range(all_job_ids(ledger))
           drained == Drained(required_jobs, queued_jobs)
       IN  IF run_configurations_metadata(ledger).error # "none"
           THEN \* all_job_ids raises
                wait' = [wait EXCEPT
                           !.time_waited = @ + wait_time,
                           !.sleeps = Append(@, wait_time),
                           !.queued_jobs = queued_jobs,
                           !.pc = "returned",
                           !.result = "raised"]
           ELSE wait' = [wait EXCEPT
                           !.time_waited = @ + wait_time,
                           !.sleeps = Append(@, wait_time),
                           !.queued_jobs = queued_jobs,
                           !.required_jobs = required_jobs,
                           !.pc = IF drained THEN "returned" ELSE "loop",
                           !.result = IF drained THEN "False" ELSE "none",
                           !.backoff_index =
                               IF drained THEN @
                               ELSE NextBackoffIndex(@, wait.backoff)]
    /\ UNCHANGED <<benchVars, expandVars, queue, recordVars, run_outputs,
                   aggVars>>

\* The loop condition fails: line 191
WaitTimeout ==
    /\ wait.pc = "loop"
    /\ wait.time_waited >= wait.max_time_to_wait
    /\ wait' = [wait EXCEPT !.pc = "returned", !.result = "True"]
    /\ UNCHANGED <<benchVars, expandVars, queue, recordVars, run_outputs,
                   aggVars>>

\* The scheduler: a queued job ends and leaves the queue
JobLeaves ==
    /\ \E job \in queue : queue' = queue \ {job}
    /\ UNCHANGED <<benchVars, expandVars, wait, recordVars, run_outputs,
                   aggVars>>

\* record_all records every bench before it waits for any
RecordBeforeWait ==
    /\ wait.pc = "idle"
    /\ RecordQueued

InitWait ==
    /\ \E bench \in ReportBenches :
          /\ run_configuration_models = bench.models
          /\ matrix = bench.matrix
          /\ reruns = bench.reruns
          /\ analysis = bench.analysis
    /\ instantiations = NotCalled
    /\ realised_runs = NotRealised
    /\ wait = NotWaiting
    /\ queue \in SUBSET {ForeignJob}
    /\ NothingRecorded
    /\ run_outputs = NoRunOutputs
    /\ run_metrics = <<>>
    /\ aggregated = NotAggregated
    /\ derived = NotDerived

NextWait ==
    RecordBeforeWait \/ WaitStart \/ WaitIteration \/ WaitTimeout \/ JobLeaves

SpecWait == InitWait /\ [][NextWait]_vars

\* wait_for_queue keeps running: a loop iteration that can be taken is
\* taken, and so is the return; the scheduler need not ever end a job. One
\* bench, of one job a pass.
InitWaitFair ==
    /\ InitWait
    /\ run_configuration_models = <<"ref">>
    /\ matrix = OneArgMatrix

SpecWaitFair ==
    /\ InitWaitFair
    /\ [][NextWait]_vars
    /\ WF_vars(WaitIteration)
    /\ WF_vars(WaitTimeout)

-----------------------------------------------------------------------------
(* Record passes, dry or not, and reports on a ledger file that may be     *)
(* damaged between two invocations                                          *)

\* A record pass, dry or not, in which the scheduler accepts every submission
RecordAny ==
    /\ next_job_id <= MaxJobId
    /\ \E dry_run \in BOOLEAN, no_clobber \in BOOLEAN :
          Record(dry_run, no_clobber, {})

\* The instantiation cell of one row of the ledger file is damaged
LedgerCorrupted ==
    /\ ledger.exists
    /\ \A i \in 1..Len(ledger.rows) : ~Undecodable(ledger.rows[i])
    /\ \E k \in 1..Len(ledger.rows) :
          ledger' = [ledger EXCEPT !.rows[k].instantiation = CorruptCell]
    /\ UNCHANGED <<benchVars, expandVars, waitVars, output_directory_exists,
                   next_job_id, args, record_error, submissions,
                   dry_run_outputs, ledger_before, recorded, failures,
                   output_files, run_outputs, aggVars>>

NextLedger == RecordAny \/ JobsFinish \/ LedgerCorrupted \/ Report

SpecLedger == InitReport /\ [][NextLedger]_vars

-----------------------------------------------------------------------------
(* Claims about TestBench.record *)

\* The last record call was not a dry run
NonDryRunPass == recorded /\ ~args.dry_run

\* The submissions of rerun group g, in the order they were made
GroupSubmissions(g) == SelectSeq(submissions, LAMBDA s : s.group = g)

SubmittedGroups == {submissions[k].group : k \in 1..Len(submissions)}

\* The submissions that returned a job id, in the order they were made
Successful == SelectSeq(submissions, LAMBDA s : s.job_id # NoJob)

\* The earlier submissions of the run configuration of submission k that
\* returned a job id
EarlierQueued(k) ==
    {j \in 1..(k - 1) : /\ submissions[j].name = submissions[k].name
                        /\ submissions[j].job_id # NoJob}

C2_FailedFirstStopsGroup ==
    NonDryRunPass =>
        \A k \in 1..Len(submissions) :
            (submissions[k].rerun = 0 /\ submissions[k].job_id = NoJob) =>
                ~\E j \in 1..Len(submissions) :
                    /\ submissions[j].group = submissions[k].group
                    /\ submissions[j].rerun > 0

\* The rows of a ledger file, parsed
Rows(file) == run_configurations_metadata(file).list

\* The rows the last record call found and kept
KeptRows == IF args.no_clobber THEN Rows(ledger_before) ELSE <<>>

\* The rows the last record call added
AddedRows == SubSeq(Rows(ledger), Len(KeptRows) + 1, Len(Rows(ledger)))

\* C3: after a non-dry-run pass has written the ledger, the rows it added
\* are, one for one and in order, the submissions that returned a job id:
\* each such submission has exactly one added row, with its job id, name and
\* instantiation, and a submission that failed has none.
C3_RowsAreQueuedJobs ==
    (NonDryRunPass /\ record_error = "none") =>
        /\ Len(AddedRows) = Len(Successful)
        /\ \A i \in 1..Len(AddedRows) :
              /\ AddedRows[i].job_id = Successful[i].job_id
              /\ AddedRows[i].name = Successful[i].name
              /\ AddedRows[i].instantiation = Successful[i].instantiation
        /\ \A i, j \in 1..Len(AddedRows) :
              AddedRows[i].job_id = AddedRows[j].job_id => i = j
        /\ \A i \in 1..Len(AddedRows) : AddedRows[i].job_id # NoJob

\* A pass in which one submission failed and others were queued
C3_Witness ==
    /\ NonDryRunPass
    /\ record_error = "none"
    /\ Len(Successful) >= 2
    /\ Len(Successful) < Len(submissions)
    /\ Len(AddedRows) = Len(Successful)

\* C4: after a record pass without clobbering, the ledger holds the rows it
\* held before the pass, unchanged and in the same order, followed by the
\* rows of the jobs the pass queued (none for a dry run or a pass that
\* raised); so a ledger that lost rows was clobbered.
C4_NoClobberAppends ==
    recorded =>
        /\ args.no_clobber =>
              /\ Len(Rows(ledger)) >= Len(Rows(ledger_before))
              /\ SubSeq(ledger.rows, 1, Len(ledger_before.rows))
                    = ledger_before.rows
              /\ Len(Rows(ledger)) =
                    Len(Rows(ledger_before))
                    + (IF record_error = "none" THEN Len(Successful) ELSE 0)
              /\ \A i \in 1..Len(AddedRows) :
                    AddedRows[i].job_id = Successful[i].job_id
              /\ (args.dry_run \/ record_error # "none") =>
                    ledger = ledger_before
        /\ (\E i \in 1..Len(ledger_before.rows) :
               i > Len(ledger.rows) \/ ledger.rows[i] # ledger_before.rows[i])
              => ~args.no_clobber

\* A second pass without clobbering added rows after those of an earlier pass
C4_Witness ==
    /\ NonDryRunPass
    /\ args.no_clobber
    /\ Len(ledger_before.rows) >= 2
    /\ Len(ledger.rows) > Len(ledger_before.rows)
    /\ SubSeq(ledger.rows, 1, Len(ledger_before.rows)) = ledger_before.rows

\* The script has the annotation in place of the build commands
PreBuilt(script) == script.build = "echo 'run configuration was pre-built'"

\* C26: in a non-dry-run pass a job is submitted with a pre-built script
\* exactly when it is submitted with a dependency, and a dependency is one
\* job id, returned by an earlier submission of the same run configuration
\* in the same pass (so never a failed submission nor a job of another
\* configuration).
C26_PreBuiltIffDependency ==
    NonDryRunPass =>
        \A k \in 1..Len(submissions) :
            /\ PreBuilt(submissions[k].script)
                  <=> submissions[k].dependencies # <<>>
            /\ submissions[k].dependencies # <<>> =>
                  /\ Len(submissions[k].dependencies) = 1
                  /\ submissions[k].dependencies[1] # NoJob
                  /\ \E j \in 1..(k - 1) :
                        /\ submissions[j].job_id
                              = submissions[k].dependencies[1]
                        /\ submissions[j].name = submissions[k].name
                  /\ \A j \in 1..Len(submissions) :
                        submissions[j].job_id = submissions[k].dependencies[1]
                            => submissions[j].name = submissions[k].name

\* A pass over two run configurations in which the first submission failed:
\* the second is made with the build commands and no dependency, and a
\* later one of the other configuration is pre-built
C26_Witness ==
    /\ NonDryRunPass
    /\ Len(submissions) >= 4
    /\ submissions[1].job_id = NoJob
    /\ submissions[2].name = submissions[1].name
    /\ submissions[2].dependencies = <<>>
    /\ ~PreBuilt(submissions[2].script)
    /\ \E k \in 3..Len(submissions) :
          /\ submissions[k].name # submissions[1].name
          /\ PreBuilt(submissions[k].script)
          /\ submissions[k].dependencies # <<>>

\* A step of a dry-run record call on the bench as it stands
DryRunStep ==
    /\ UNCHANGED benchVars
    /\ recorded'
    /\ args'.dry_run
    /\ ~run_outputs'.called
    /\ record_error' = "none"

\* The script texts printed are one per run configuration, instantiation
\* and rerun, in loop order
OnePerRerun(outputs) ==
    LET per_group == reruns.number
        per_model == Len(Instantiations(matrix).list) * per_group
    IN  /\ Len(outputs) = Len(run_configuration_models) * per_model
        /\ \A k \in 1..Len(outputs) :
              /\ outputs[k].name =
                    run_configuration_models[((k - 1) \div per_model) + 1]
              /\ outputs[k].instantiation =
                    Instantiations(matrix).list[
                        (((k - 1) % per_model) \div per_group) + 1]

\* C16: a dry-run record pass renders one script text per run
\* configuration, instantiation and rerun, calls the scheduler's submit for
\* none of them and adds no row to the ledger (the ledger is as it was, or
\* gone with the clobbered directory).
C16_DryRunRendersOnly ==
    [][DryRunStep =>
          /\ OnePerRerun(dry_run_outputs')
          /\ submissions' = <<>>
          /\ next_job_id' = next_job_id
          /\ ledger' = ledger \/ ledger' = NoLedger]_vars

\* A dry run of two configurations over two instantiations after a recorded
\* pass: scripts printed, nothing submitted, the ledger as it was
C16_Witness ==
    /\ recorded
    /\ args.dry_run
    /\ args.no_clobber
    /\ Len(dry_run_outputs) = 4 * reruns.number
    /\ reruns.number >= 2
    /\ submissions = <<>>
    /\ ledger.rows # <<>>
    /\ ledger = ledger_before

-----------------------------------------------------------------------------
(* Claims about TestBench.get_run_outputs *)

\* The rerun indices of the ledger rows, in file order
RerunIndices == [k \in 1..Len(Rows(ledger)) |-> Rows(ledger)[k].rerun_count]

\* The rows at which the rerun index is not the previous row's index plus
\* one; the first row starts the first group
GroupStarts ==
    {k \in 1..Len(RerunIndices) :
        k = 1 \/ RerunIndices[k] # RerunIndices[k - 1] + 1}

\* The last row of the stretch of rows that starts at row k
StretchEnd(k) ==
    IF \E t \in GroupStarts : t > k
    THEN (CHOOSE t \in GroupStarts :
              t > k /\ \A u \in GroupStarts : u > k => t <= u) - 1
    ELSE Len(RerunIndices)

\* The job ids of the rows k..StretchEnd(k) whose run configuration the bench
\* defines, in file order
StretchJobs(k) ==
    LET defined == SelectSeq(SubSeq(Rows(ledger), k, StretchEnd(k)),
                       LAMBDA row : row.name \in Range(run_configuration_models))
    IN  [i \in 1..Len(defined) |-> defined[i].job_id]

\* The stretches that make a group, in file order: those with a row of a
\* defined run configuration, and the last one
RECURSIVE StretchesFrom(_)
StretchesFrom(k) ==
    IF k > Len(RerunIndices) THEN <<>>
    ELSE (IF StretchJobs(k) # <<>> \/ StretchEnd(k) = Len(RerunIndices)
          THEN <<StretchJobs(k)>> ELSE <<>>)
         \o StretchesFrom(StretchEnd(k) + 1)

\* The job ids of the reconstructed groups
GroupJobs ==
    [g \in 1..Len(run_outputs.groups) |->
        [i \in 1..Len(run_outputs.groups[g]) |->
            run_outputs.groups[g][i].job_id]]

GroupSizes == [g \in 1..Len(run_outputs.groups) |-> Len(run_outputs.groups[g])]

AllNamesDefined ==
    \A k \in 1..Len(Rows(ledger)) :
        Rows(ledger)[k].name \in Range(run_configuration_models)

\* C5: get_run_outputs walks the ledger rows in file order and starts a new
\* group exactly at the rows whose rerun index is not the previous row's
\* index plus one: the groups are the stretches of rows between such rows,
\* in file order (rows of run configurations the bench does not define are
\* left out, and a stretch left without rows makes no group unless it is the
\* last). Rerun indices [0,1,2,0,1] give groups of sizes 3 and 2 and indices
\* [0,0,0] give three groups of one row.
C5_SplitOnIndexBreak ==
    (run_outputs.called /\ run_outputs.exists) =>
        /\ GroupJobs = IF Rows(ledger) = <<>> THEN << <<>> >>
                       ELSE StretchesFrom(1)
        /\ AllNamesDefined =>
              /\ Len(run_outputs.groups) =
                    IF Rows(ledger) = <<>> THEN 1
                    ELSE Cardinality(GroupStarts)
              /\ RerunIndices = <<0, 1, 2, 0, 1>> => GroupSizes = <<3, 2>>
              /\ RerunIndices = <<0, 0, 0>> => GroupSizes = <<1, 1, 1>>

\* The ledger rows have rerun indices [0,1,2,0,1] and two groups, of sizes 3
\* and 2, were reconstructed
C5_Witness ==
    /\ run_outputs.called
    /\ run_outputs.exists
    /\ RerunIndices = <<0, 1, 2, 0, 1>>
    /\ GroupSizes = <<3, 2>>
    /\ GroupJobs[1] = <<Rows(ledger)[1].job_id, Rows(ledger)[2].job_id,
                        Rows(ledger)[3].job_id>>

-----------------------------------------------------------------------------
(* Claims about the report, checked under SpecReport *)

\* A report has read the ledger back
Reported == run_outputs.called /\ run_outputs.exists

\* Every configured pattern matches a line of the output of the job
Usable(job) ==
    /\ job.output.exists
    /\ \A p \in 1..Len(analysis.metrics) :
          \E i \in 1..Len(job.output.text) :
              job.output.text[i][1] = analysis.metrics[p][2]

\* The job ids of the jobs of group g that contribute values
Contributing(g) == {run_metrics[g][i].job_id : i \in 1..Len(run_metrics[g])}

\* A job whose output is missing or not matched by some pattern contributes
\* no value to its group, and every other job contributes a value for every
\* configured metric
ExtractionAllOrNothing ==
    Reported =>
        /\ Len(run_metrics) = Len(run_outputs.groups)
        /\ \A g \in 1..Len(run_outputs.groups) :
              /\ Contributing(g) =
                    {run_outputs.groups[g][i].job_id :
                        i \in {j \in 1..Len(run_outputs.groups[g]) :
                                  Usable(run_outputs.groups[g][j])}}
              /\ \A i \in 1..Len(run_metrics[g]) :
                    DictKeys(run_metrics[g][i].metrics) =
                        {analysis.metrics[p][1] :
                            p \in 1..Len(analysis.metrics)}

\* C12 as stated: a job with a missing output or an unmatched pattern
\* contributes no value to any metric of its group, while the other jobs of
\* the group and of the other groups are extracted and aggregated: the
\* aggregation returns, with an entry for every group that has a
\* contributing job.
C12_AllOrNothingPerJob ==
    /\ ExtractionAllOrNothing
    /\ Reported =>
          /\ aggregated.called
          /\ aggregated.error = "none"
          /\ Len(aggregated.list) =
                Cardinality({g \in 1..Len(run_metrics) : run_metrics[g] # <<>>})

\* The positions in group g of the jobs every pattern matches
UsableJobs(g) ==
    {j \in 1..Len(run_outputs.groups[g]) : Usable(run_outputs.groups[g][j])}

\* The groups with at least one usable job
GroupsWithData == {g \in 1..Len(run_outputs.groups) : UsableJobs(g) # {}}

\* The first usable job of group g, in ledger order
FirstUsable(g) ==
    run_outputs.groups[g][CHOOSE j \in UsableJobs(g) :
                              \A k \in UsableJobs(g) : j <= k]

\* The entries of the aggregated output are, in order, one per group with a
\* usable job, each with the run configuration of the first usable job of
\* its group and an entry for exactly the metrics its jobs have values for
EntriesOfGroupsWithData ==
    /\ Len(aggregated.list) = Cardinality(GroupsWithData)
    /\ \A g \in GroupsWithData :
          LET entry == aggregated.list[Cardinality({h \in GroupsWithData :
                                                      h <= g})]
          IN  /\ entry.run_configuration = FirstUsable(g).run_configuration
              /\ run_metrics[g][1].job_id = FirstUsable(g).job_id
              /\ DictKeys(entry.metrics) =
                    UNION {DictKeys(run_metrics[g][i].metrics) :
                              i \in 1..Len(run_metrics[g])}

\* A report whose aggregation returns drops exactly the groups without a
\* usable job
DroppedOnlyWithoutData ==
    (Reported /\ aggregated.called /\ aggregated.error = "none") =>
        EntriesOfGroupsWithData

\* C23 as stated: in a report, a rerun group is absent from the aggregated
\* output only if none of its jobs yielded metrics; every group with a
\* usable job has exactly one entry, with the run configuration of its first
\* usable job in ledger order, holding the metrics its jobs have values for.
C23_DroppedOnlyWithoutData ==
    Reported => (aggregated.called /\ EntriesOfGroupsWithData)

\* The bench of the end-to-end scenario: one configuration, a single-field
\* matrix of two values, three reruns of which the highest is discarded
ScenarioBench ==
    /\ run_configuration_models = <<"ref">>
    /\ matrix = ArgsMatrix
    /\ reruns.number = 3
    /\ reruns.highest_discard = 1
    /\ reruns.lowest_discard = 0
    /\ reruns.unaggregatable_metrics = {}

AllUsable ==
    \A g \in 1..Len(run_outputs.groups) :
        \A i \in 1..Len(run_outputs.groups[g]) :
            Usable(run_outputs.groups[g][i])

\* The largest of a non-empty sequence of numbers
Largest(s) == CHOOSE v \in Range(s) : \A w \in Range(s) : w <= v

\* C13: for the scenario bench, a record pass in which every submission
\* succeeds makes 6 submissions and writes 6 ledger rows; when every output
\* is parsable, the report reconstructs 2 groups of 3 jobs and gives each
\* group one aggregated value per extracted metric, the mean of the 2 lowest
\* of its 3 raw values.
C13_EndToEnd ==
    (ScenarioBench /\ NonDryRunPass /\ Len(Successful) = Len(submissions)) =>
        /\ Len(submissions) = 6
        /\ Len(AddedRows) = 6
        /\ Len(Rows(ledger)) = 6
        /\ (Reported /\ AllUsable) =>
              /\ GroupSizes = <<3, 3>>
              /\ aggregated.called
              /\ aggregated.error = "none"
              /\ Len(aggregated.list) = 2
              /\ \A g \in 1..2 :
                    /\ Len(run_metrics[g]) = 3
                    /\ aggregated.list[g].run_configuration.instantiation
                          = Rows(ledger)[3 * g].instantiation
                    /\ DictKeys(aggregated.list[g].metrics) = {"time"}
                    /\ LET value == DictGet(aggregated.list[g].metrics, "time")
                           raw == Floats(TimeValues(g))
                       IN  /\ value.kind = "ufloat"
                           /\ value.mean_num * 2 =
                                 (Sum(raw) - Largest(raw)) * value.mean_den

\* The scenario with raw values 30, 10, 20 in the first group: mean 15
C13_Witness ==
    /\ ScenarioBench
    /\ Reported
    /\ AllUsable
    /\ Len(submissions) = 6
    /\ GroupSizes = <<3, 3>>
    /\ TimeValues(1) = <<"30", "10", "20">>
    /\ TimeValues(2) = <<"20", "30", "30">>
    /\ DictGet(aggregated.list[1].metrics, "time").mean_num = 30
    /\ DictGet(aggregated.list[1].metrics, "time").mean_den = 2
    /\ DictGet(aggregated.list[2].metrics, "time").mean_num = 50

\* C14 as stated: when a derived-metric formula fails for one entry, the
\* remaining derived metrics of that entry and of the other entries are
\* still evaluated and calculate_derived_metrics returns the output list,
\* with one entry per aggregated entry.
C14_FormulaErrorConfined ==
    derived.called =>
        /\ derived.error = "none"
        /\ Len(derived.list) = Len(aggregated.list)
        /\ \A k \in 1..Len(derived.list) :
              /\ derived.list[k].run_configuration =
                    aggregated.list[k].run_configuration
              /\ \A d \in 1..Len(analysis.derived_metrics) :
                    analysis.derived_metrics[d][2].op = "sequential" =>
                        analysis.derived_metrics[d][1]
                            \in DictKeys(derived.list[k].metrics)

\* C15 as stated: the cross-configuration context built for the aggregated
\* entry of configuration c and instantiation i maps every configuration
\* name it contains to the aggregated metrics of that configuration for the
\* same instantiation i.
C15_ContextOfSameInstantiation ==
    derived.called =>
        \A c \in 1..Len(derived.contexts) :
            LET context == derived.contexts[c]
            IN  \A n \in 1..Len(context.corresponding) :
                    LET entry == aggregated.list[context.corresponding[n][2]]
                    IN  /\ entry.run_configuration.name =
                              context.corresponding[n][1]
                        /\ entry.run_configuration.instantiation =
                              aggregated.list[context.position]
                                  .run_configuration.instantiation

\* The configuration name and the instantiation of a realised run
Identity(run_configuration) ==
    <<run_configuration.name, run_configuration.instantiation>>

\* The rerun groups get_run_outputs reconstructs from a ledger file
GroupsOf(file) ==
    GetRunOutputs(file, run_configuration_models, output_files).groups

\* The job ids of the non-empty groups of a sequence of groups, in order
JobIds(groups) ==
    SelectSeq([g \in 1..Len(groups) |->
                  [i \in 1..Len(groups[g]) |-> groups[g][i].job_id]],
              LAMBDA group : group # <<>>)

\* The ledger file the last record call kept
KeptFile == IF args.no_clobber THEN ledger_before ELSE NoLedger

\* The submissions of the last record call that returned a job id, by rerun
\* group (one group per run configuration and instantiation), in order
PassGroups ==
    [g \in 1..Cardinality(SubmittedGroups) |->
        SelectSeq(GroupSubmissions(g), LAMBDA s : s.job_id # NoJob)]

\* C20: after a non-dry-run record pass on a ledger whose configuration
\* names are all defined, the non-empty groups get_run_outputs reconstructs
\* are those of the ledger the pass kept, followed by one group per run
\* configuration and instantiation of the pass with at least one successful
\* submission, holding exactly its successfully submitted jobs in order (so,
\* pass after pass, the groups are those of every pass since the last
\* clobber); every reconstructed group holds jobs of one configuration name
\* and one instantiation, and a report returns these groups.
C20_RecordReconstructRoundTrip ==
    (NonDryRunPass /\ record_error = "none" /\ AllNamesDefined) =>
        /\ SubmittedGroups = 1..Cardinality(SubmittedGroups)
        /\ JobIds(GroupsOf(ledger))
              = JobIds(GroupsOf(KeptFile)) \o JobIds(PassGroups)
        /\ \A g \in 1..Len(GroupsOf(ledger)) :
              \A i, j \in 1..Len(GroupsOf(ledger)[g]) :
                  Identity(GroupsOf(ledger)[g][i].run_configuration)
                      = Identity(GroupsOf(ledger)[g][j].run_configuration)
        /\ \A g \in 1..Len(PassGroups) :
              \A i \in 1..Len(PassGroups[g]) :
                  \E h \in 1..Len(GroupsOf(ledger)) :
                      \E k \in 1..Len(GroupsOf(ledger)[h]) :
                          LET job == GroupsOf(ledger)[h][k]
                          IN  /\ job.job_id = PassGroups[g][i].job_id
                              /\ Identity(job.run_configuration)
                                    = Identity(PassGroups[g][i])
        /\ Reported => run_outputs.groups = GroupsOf(ledger)

\* A second pass without clobbering in which a submission failed and two
\* succeeded has been read back: its jobs follow the group of the first pass
C20_Witness ==
    /\ NonDryRunPass
    /\ record_error = "none"
    /\ AllNamesDefined
    /\ args.no_clobber
    /\ Len(JobIds(GroupsOf(KeptFile))) >= 1
    /\ Len(Successful) < Len(submissions)
    /\ Len(Successful) >= 2
    /\ Reported
    /\ Len(JobIds(run_outputs.groups)) >= 2

\* C19 as stated: after any sequence of record passes, the reconstruction
\* puts all ledger rows of one configuration name and instantiation into one
\* group, and the report holds at most one aggregated entry per
\* configuration name and instantiation.
C19_OneGroupPerInstantiation ==
    Reported =>
        /\ \A g, h \in 1..Len(run_outputs.groups) :
              (/\ g # h
               /\ run_outputs.groups[g] # <<>>
               /\ run_outputs.groups[h] # <<>>) =>
                  Identity(run_outputs.groups[g][1].run_configuration)
                      # Identity(run_outputs.groups[h][1].run_configuration)
        /\ \A a, b \in 1..Len(aggregated.list) :
              a # b =>
                  Identity(aggregated.list[a].run_configuration)
                      # Identity(aggregated.list[b].run_configuration)

-----------------------------------------------------------------------------
(* Claims about wait_for_queue *)

\* The job ids recorded in the ledger
RecordedJobs == Range(all_job_ids(ledger))

\* A step of wait_for_queue
WaitStep == wait' # wait

\* C18: wait_for_queue returns False only in an iteration whose poll finds
\* none of the job ids of the ledger in the scheduler's queue; while a
\* recorded id is queued and the accumulated wait is below max_time_to_wait
\* it keeps waiting; once the accumulated wait has reached max_time_to_wait
\* it returns True, and only then; no step of it changes the queue.
C18_DrainedOrTimedOut ==
    [][WaitStep =>
        /\ queue' = queue
        /\ (wait'.result = "False") =>
              /\ Len(wait'.sleeps) = Len(wait.sleeps) + 1
              /\ wait'.queued_jobs = queue
              /\ RecordedJobs \cap queue = {}
        /\ (wait.pc = "loop" /\ RecordedJobs \cap queue # {}) =>
              IF wait.time_waited >= wait.max_time_to_wait
              THEN wait'.pc = "returned" /\ wait'.result = "True"
              ELSE wait'.pc = "loop"
        /\ (wait'.result = "True") =>
              wait.time_waited >= wait.max_time_to_wait]_vars

\* wait_for_queue has returned False after a poll that found a recorded job
\* queued and a later poll that found only another job of the user queued
C18_Witness ==
    /\ wait.result = "False"
    /\ Len(wait.sleeps) >= 2
    /\ wait.required_jobs # {}
    /\ wait.queued_jobs = {ForeignJob}

\* C24 as stated: when wait_for_queue returns, the accumulated wait is at
\* most max_time_to_wait, for every backoff schedule and every behaviour of
\* the scheduler.
C24_WaitCapped ==
    wait.pc = "returned" => wait.time_waited <= wait.max_time_to_wait

-----------------------------------------------------------------------------
(* Claims about the ledger file, checked under SpecLedger *)

\* The ledger file holds a row whose instantiation cell cannot be decoded
HasCorruptRow(file) == \E i \in 1..Len(file.rows) : Undecodable(file.rows[i])

\* C25: while the ledger holds a row whose instantiation cell cannot be
\* decoded, loading it raises and returns no row (none with a missing or
\* partial instantiation): a report ends with that error and no group; a
\* record pass that keeps the directory and submits jobs ends with that
\* error when it reads the existing rows, and leaves the file as it was.
C25_CorruptCellIsHardFailure ==
    [][HasCorruptRow(ledger) =>
          /\ run_configurations_metadata(ledger).error # "none"
          /\ run_configurations_metadata(ledger).list = <<>>
          /\ (~run_outputs.called /\ run_outputs'.called) =>
                /\ run_outputs'.error # "none"
                /\ run_outputs'.groups = <<>>
                /\ ~aggregated'.called
          /\ (next_job_id' # next_job_id /\ args'.no_clobber) =>
                /\ record_error' # "none"
                /\ ledger' = ledger]_vars

\* A record pass without clobbering has submitted jobs on a ledger with a
\* damaged row: it raised and the file is as it was
C25_Witness ==
    /\ recorded
    /\ ~args.dry_run
    /\ args.no_clobber
    /\ submissions # <<>>
    /\ record_error = "UnpicklingError"
    /\ HasCorruptRow(ledger)
    /\ ledger = ledger_before

\* A step of a dry-run record call: the call remembers the ledger it found;
\* a step in which a cell is damaged or the jobs write their files is not
\* a record call
DryRunCall ==
    /\ DryRunStep
    /\ ledger_before' = ledger
    /\ ~(HasCorruptRow(ledger') /\ ~HasCorruptRow(ledger))
    /\ ~(output_files = <<>> /\ output_files' # <<>>)

\* C27 as stated: a dry-run record pass leaves the ledger file and the
\* output files that were there before it in place and unchanged, with or
\* without clobbering.
C27_DryRunKeepsFiles ==
    [][DryRunCall =>
          /\ ledger' = ledger
          /\ output_files' = output_files]_vars

\* The scripts a non-dry-run pass on the bench as it stands submits when the
\* scheduler accepts every submission
SubmittedScripts ==
    LET end == Models(LoopStart(next_job_id), run_configuration_models,
                      Instantiations(matrix).list, reruns.number, FALSE, {})
    IN  [k \in 1..Len(end.submissions) |-> end.submissions[k].script]

\* C28 as stated: the script texts a dry-run pass renders are, in order, the
\* script texts a non-dry-run pass on the same bench submits when every
\* submission succeeds, with the same choice between build commands and
\* annotation at every position.
C28_DryRunRendersSubmittedScripts ==
    (recorded /\ args.dry_run /\ record_error = "none") =>
        /\ Len(dry_run_outputs) = Len(SubmittedScripts)
        /\ \A k \in 1..Len(dry_run_outputs) :
              /\ dry_run_outputs[k] = SubmittedScripts[k]
              /\ PreBuilt(dry_run_outputs[k]) <=> PreBuilt(SubmittedScripts[k])

-----------------------------------------------------------------------------
(* Termination of wait_for_queue, checked under SpecWaitFair *)

\* The k-th sleep lasts the k-th entry of the schedule, or the last entry
\* once the schedule is exhausted
SleepsFollowSchedule ==
    \A k \in 1..Len(wait.sleeps) :
        wait.sleeps[k] =
            wait.backoff[IF k <= Len(wait.backoff) THEN k
                         ELSE Len(wait.backoff)]

\* C29: with a finite max_time_to_wait and positive backoff entries, a call
\* of wait_for_queue returns whatever the scheduler does, also when jobs
\* never leave the queue; the k-th sleep uses the k-th backoff entry and,
\* once the schedule is exhausted, the last entry.
C29_WaitTerminates ==
    /\ []SleepsFollowSchedule
    /\ (wait.pc = "loop") ~> (wait.pc = "returned")

\* A call timed out with a recorded job still queued, after more sleeps than
\* the schedule of two entries has
C29_Witness ==
    /\ wait.pc = "returned"
    /\ wait.result = "True"
    /\ wait.required_jobs \cap queue # {}
    /\ Len(wait.backoff) = 2
    /\ Len(wait.sleeps) > Len(wait.backoff)

-----------------------------------------------------------------------------
(* Claims about the instantiation numbers, checked under SpecDerive *)

\* The positions of the aggregated entries of the configuration of entry k
SameConfiguration(k) ==
    {j \in 1..Len(aggregated.list) :
        aggregated.list[j].run_configuration.name
            = aggregated.list[k].run_configuration.name}

\* The number of entries of the configuration of entry k before entry k
Rank(k) == Cardinality({j \in SameConfiguration(k) : j < k})

\* C30 as stated: calculate_derived_metrics gives the entries of one
\* configuration the instantiation numbers 0..k-1 in order of appearance,
\* pairwise distinct, and binds each number to the metrics of exactly one
\* entry, the one that has the number; for every input list, also with
\* instantiations that differ only in spaces, underscores or slashes or
\* that repeat.
C30_DistinctInstantiationNumbers ==
    derived.called =>
        /\ Len(derived.contexts) = Len(aggregated.list)
        /\ \A k \in 1..Len(derived.contexts) :
              /\ derived.contexts[k].position = k
              /\ derived.contexts[k].number = Rank(k)
              /\ DictKeys(derived.contexts[k].sequential)
                    = 0..(Cardinality(SameConfiguration(k)) - 1)
              /\ DictGet(derived.contexts[k].sequential, Rank(k)) = k

====
